---- MODULE Spec2Model ----
(***************************************************************************)
(* A model of the uhd crate (Rust bindings over the UHD C API): the error  *)
(* helper, the string copy-out helper, the receive and transmit streamers, *)
(* the receive metadata and the stream-command encoding.                   *)
(*                                                                         *)
(* The native library is the environment: every native entry point returns *)
(* a status and writes its out-parameters, both chosen nondeterministically*)
(* by the actions below.  `last` holds the outcome of the most recent call *)
(* made through the binding, including the native entry points it reached. *)
(***************************************************************************)
EXTENDS Integers, Sequences, FiniteSets, TLC

(***************************************************************************)
(* Bounds of the model.                                                    *)
(***************************************************************************)
\* Largest channel count of a streamer.
MaxChannels == 2
\* Largest length of a caller-supplied sample buffer.
MaxBufLen == 2
\* Depth of nested check_status frames the thread's stack can hold.
StackLimit == 3
\* The host count type (u64) holds 0..HostCountMax.
HostCountMax == 3
\* A native count type narrower than the host's holds 0..NarrowCountMax.
NarrowCountMax == 2
\* The host seconds type (i64) holds -HostSecsMax..HostSecsMax.
HostSecsMax == 2
\* A native time_t narrower than the host's holds -NarrowSecsMax..NarrowSecsMax.
NarrowSecsMax == 1
\* Native handles made in one run of the device specification.
MaxHandles == 3
\* Threads sharing the streamers in the threads specification.
MaxThreads == 3
\* Samples a bounded stream may still owe, follow-on commands included.
MaxBudget == 4
\* Calls of next() made on one size iterator.
MaxNexts == 16
\* Strings in one native string vector.
MaxStrings == 3
\* Ranges in one native meta-range.
MaxRanges == 3

(***************************************************************************)
(* error.rs                                                                *)
(***************************************************************************)
UHD_ERROR_NONE == "UHD_ERROR_NONE"

\* The named values of the native status enum, in the order of the match.
NamedStatuses ==
    { "UHD_ERROR_NONE", "UHD_ERROR_INVALID_DEVICE", "UHD_ERROR_INDEX",
      "UHD_ERROR_KEY", "UHD_ERROR_NOT_IMPLEMENTED", "UHD_ERROR_USB",
      "UHD_ERROR_IO", "UHD_ERROR_OS", "UHD_ERROR_ASSERTION",
      "UHD_ERROR_LOOKUP", "UHD_ERROR_TYPE", "UHD_ERROR_VALUE",
      "UHD_ERROR_RUNTIME", "UHD_ERROR_ENVIRONMENT", "UHD_ERROR_SYSTEM",
      "UHD_ERROR_EXCEPT", "UHD_ERROR_BOOSTEXCEPT", "UHD_ERROR_STDEXCEPT",
      "UHD_ERROR_UNKNOWN" }

\* Values of the status type that the enum does not name.
UnnamedStatuses == { "unnamed_2", "unnamed_101" }

Statuses == NamedStatuses \cup UnnamedStatuses

\* A variant of code_to_error_kind whose wildcard arm yields None.
code_to_error_kind_wildcard_none(code) ==
    CASE code = "UHD_ERROR_NONE" -> <<>>
      [] code \in UnnamedStatuses -> <<>>
      [] OTHER -> <<"Unknown">>

\* Option<ErrorKind>: <<>> is None, <<k>> is Some(k).
code_to_error_kind(code) ==
    CASE code = "UHD_ERROR_NONE" -> <<>>
      [] code = "UHD_ERROR_INVALID_DEVICE" -> <<"InvalidDevice">>
      [] code = "UHD_ERROR_INDEX" -> <<"Index">>
      [] code = "UHD_ERROR_KEY" -> <<"Key">>
      [] code = "UHD_ERROR_NOT_IMPLEMENTED" -> <<"NotImplemented">>
      [] code = "UHD_ERROR_USB" -> <<"Usb">>
      [] code = "UHD_ERROR_IO" -> <<"Io">>
      [] code = "UHD_ERROR_OS" -> <<"Os">>
      [] code = "UHD_ERROR_ASSERTION" -> <<"Assertion">>
      [] code = "UHD_ERROR_LOOKUP" -> <<"Lookup">>
      [] code = "UHD_ERROR_TYPE" -> <<"Type">>
      [] code = "UHD_ERROR_VALUE" -> <<"Value">>
      [] code = "UHD_ERROR_RUNTIME" -> <<"Runtime">>
      [] code = "UHD_ERROR_ENVIRONMENT" -> <<"Environment">>
      [] code = "UHD_ERROR_SYSTEM" -> <<"System">>
      [] code = "UHD_ERROR_EXCEPT" -> <<"Except">>
      [] code = "UHD_ERROR_BOOSTEXCEPT" -> <<"BoostExcept">>
      [] code = "UHD_ERROR_STDEXCEPT" -> <<"StdExcept">>
      [] OTHER -> <<"Unknown">>

\* Results.  A call that exhausts the stack never returns: StackOverflow.
Ok(v) == [tag |-> "Ok", value |-> v]
Err(kind, message) == [tag |-> "Err", kind |-> kind, message |-> message]
StackOverflow == [tag |-> "StackOverflow"]

\* Error::new(kind): no message.
ErrorNew(kind) == Err(kind, <<>>)

(***************************************************************************)
(* utils.rs                                                                *)
(***************************************************************************)
INITIAL_SIZE == 128
MAX_SIZE == 1024 * 1024

\* BufferSizes: the state is the field `next`.
BufferSizesNew == [next |-> INITIAL_SIZE]

\* A variant of next that stops before MAX_SIZE.
BufferSizesNext_exclusive(it) ==
    IF it.next >= MAX_SIZE
    THEN << <<>>, it >>
    ELSE << <<it.next>>, [next |-> it.next * 2] >>

\* Iterator::next: <<item, iterator after the call>>, item <<>> for None.
BufferSizesNext(it) ==
    IF it.next > MAX_SIZE
    THEN << <<>>, it >>
    ELSE << <<it.next>>, [next |-> it.next * 2] >>

(***************************************************************************)
(* What a native string-returning entry point does on each invocation: the *)
(* status it returns and, when that is the none status, the text it copies *)
(* (strncpy into the zeroed buffer: `len` bytes without a null, cut to the *)
(* buffer's size, valid UTF-8 or not).                                     *)
(***************************************************************************)
NativeText(status, len, utf8) == [status |-> status, len |-> len, utf8 |-> utf8]

\* The closure handed to copy_string: its first `healthy` invocations return
\* the none status and copy the text, the later ones return text.status.
Operation(text, healthy) == [text |-> text, healthy |-> healthy]

\* The status the i-th invocation of the closure returns.
StatusAt(op, i) ==
    IF i <= op.healthy THEN UHD_ERROR_NONE ELSE op.text.status

\* A Vec<u8> as copy_string sees it: its length, the number of bytes before
\* its first null byte (size when it holds none), and whether those bytes
\* are valid UTF-8.
VecNew == [size |-> 0, text |-> 0, utf8 |-> TRUE]

\* buffer.resize(size, b'\0'): the bytes kept are the ones it held.
Resize(buffer, size) ==
    [buffer EXCEPT !.size = size,
                   !.text = IF buffer.text < size THEN buffer.text ELSE size]

\* The closure returned the none status: the text is in the buffer, cut to
\* the buffer's size, and zero bytes fill the rest.
Filled(buffer, text) ==
    [buffer EXCEPT !.text = IF text.len < buffer.size
                            THEN text.len ELSE buffer.size,
                   !.utf8 = text.utf8]

\* buffer.iter().position(|b| *b == b'\0'): <<>> for None.
Position(buffer) ==
    IF buffer.text < buffer.size THEN <<buffer.text>> ELSE <<>>

\* A variant of truncate that leaves the vector as it is.
Truncate_keep(buffer, len) == buffer

\* buffer.truncate(len).
Truncate(buffer, len) ==
    IF len < buffer.size
    THEN [buffer EXCEPT !.size = len,
                        !.text = IF buffer.text < len THEN buffer.text
                                                      ELSE len]
    ELSE buffer

\* String::from_utf8(buffer).map_err(|_| Error::Utf8): the string keeps
\* every byte of the vector, null bytes included.
FromUtf8(buffer) ==
    IF buffer.utf8
    THEN Ok([len |-> buffer.size, nulls |-> buffer.text < buffer.size,
             utf8 |-> TRUE])
    ELSE ErrorNew("Utf8")

\* The behaviour of uhd_get_last_error: its first `fails` invocations return
\* a status other than none, the later ones copy the text.
Getter(fails, len, utf8) == [fails |-> fails, len |-> len, utf8 |-> utf8]

RECURSIVE check_status_at(_, _, _)

\* The loop of copy_string for an operation that behaves as `op` on every
\* invocation; `chk` is what check_status makes of op.status.  The copied
\* string is represented by its length.
copy_loop(op, chk) ==
    LET RECURSIVE Loop(_)
        Loop(iter) ==
            LET nx == BufferSizesNext(iter)
            IN IF nx[1] = <<>>
               THEN ErrorNew("StringLength")
               ELSE IF chk.tag # "Ok"
                    THEN chk
                    ELSE IF op.len < nx[1][1]
                         THEN IF op.utf8
                              THEN Ok(op.len)
                              ELSE ErrorNew("Utf8")
                         ELSE Loop(nx[2])
    IN Loop(BufferSizesNew)

\* last_error_message with `depth` check_status frames on the stack:
\* copy_string(|buffer, length| uhd_get_last_error(buffer, length)).ok().
\* A failing getter returns the status of its catch-all handler.
last_error_message_at(g, depth) ==
    LET r == IF g.fails > 0
             THEN copy_loop(NativeText("UHD_ERROR_UNKNOWN", 0, TRUE),
                            check_status_at("UHD_ERROR_UNKNOWN",
                                Getter(g.fails - 1, g.len, g.utf8), depth))
             ELSE copy_loop(NativeText(UHD_ERROR_NONE, g.len, g.utf8),
                            Ok(<<>>))
    IN CASE r.tag = "StackOverflow" -> r
         [] r.tag = "Ok" -> Ok(<< r.value >>)
         [] OTHER -> Ok(<<>>)

\* Error::from_code_with_last_error and check_status, with `depth` frames
\* of check_status already on the stack.
check_status_at(status, g, depth) ==
    LET kind == code_to_error_kind(status)
    IN IF kind = <<>>
       THEN Ok(<<>>)
       ELSE IF depth >= StackLimit
            THEN StackOverflow
            ELSE LET m == last_error_message_at(g, depth + 1)
                 IN IF m.tag = "StackOverflow"
                    THEN StackOverflow
                    ELSE Err(kind[1], m.value)

check_status(status, g) == check_status_at(status, g, 0)

\* copy_string(operation) for an operation behaving as `op`.
copy_string(op, g) == copy_loop(op, check_status(op.status, g))

\* A variant of check_status that takes every status for the none status.
check_status_lenient(status, g) == Ok(<<>>)

\* check_status as copy_string calls it on the status of the closure.
copy_check_status(status, g) == check_status(status, g)

(***************************************************************************)
(* receive_metadata.rs                                                     *)
(***************************************************************************)
UHD_RX_METADATA_ERROR_CODE_NONE == "UHD_RX_METADATA_ERROR_CODE_NONE"

NamedRxErrorCodes ==
    { "UHD_RX_METADATA_ERROR_CODE_NONE", "UHD_RX_METADATA_ERROR_CODE_TIMEOUT",
      "UHD_RX_METADATA_ERROR_CODE_LATE_COMMAND",
      "UHD_RX_METADATA_ERROR_CODE_BROKEN_CHAIN",
      "UHD_RX_METADATA_ERROR_CODE_OVERFLOW",
      "UHD_RX_METADATA_ERROR_CODE_ALIGNMENT",
      "UHD_RX_METADATA_ERROR_CODE_BAD_PACKET" }

\* A value of the error-code type that the enum does not name.
UnnamedRxErrorCodes == { "unnamed_rx_3" }

RxErrorCodes == NamedRxErrorCodes \cup UnnamedRxErrorCodes

\* The native object behind a fresh uhd_rx_metadata_handle.
NativeRxMetadataMake ==
    [error_code |-> UHD_RX_METADATA_ERROR_CODE_NONE, out_of_sequence |-> FALSE,
     end_of_burst |-> FALSE]

\* ReceiveMetadata::default: the struct built once uhd_rx_metadata_make succeeded.
ReceiveMetadataDefault == [handle |-> NativeRxMetadataMake, samples |-> 0]

\* ReceiveMetadata::samples
RxSamples(md) == md.samples

\* ReceiveMetadata::set_samples
RxSetSamples(md, samples) == [md EXCEPT !.samples = samples]

\* A variant of the match of last_error with the two overflow guards swapped.
last_error_kind_swapped(code, out_of_sequence) ==
    CASE code = "UHD_RX_METADATA_ERROR_CODE_TIMEOUT" -> <<"Timeout">>
      [] code = "UHD_RX_METADATA_ERROR_CODE_LATE_COMMAND" -> <<"LateCommand">>
      [] code = "UHD_RX_METADATA_ERROR_CODE_BROKEN_CHAIN" -> <<"BrokenChain">>
      [] code = "UHD_RX_METADATA_ERROR_CODE_OVERFLOW" /\ out_of_sequence
            -> <<"Overflow">>
      [] code = "UHD_RX_METADATA_ERROR_CODE_OVERFLOW" /\ ~out_of_sequence
            -> <<"OutOfSequence">>
      [] code = "UHD_RX_METADATA_ERROR_CODE_ALIGNMENT" -> <<"Alignment">>
      [] code = "UHD_RX_METADATA_ERROR_CODE_BAD_PACKET" -> <<"BadPacket">>
      [] code = "UHD_RX_METADATA_ERROR_CODE_NONE" -> <<>>
      [] OTHER -> <<"Other">>

\* A variant of the match of last_error without the timeout arm.
last_error_kind_no_timeout(code, out_of_sequence) ==
    CASE code = "UHD_RX_METADATA_ERROR_CODE_LATE_COMMAND" -> <<"LateCommand">>
      [] code = "UHD_RX_METADATA_ERROR_CODE_BROKEN_CHAIN" -> <<"BrokenChain">>
      [] code = "UHD_RX_METADATA_ERROR_CODE_OVERFLOW" /\ ~out_of_sequence
            -> <<"Overflow">>
      [] code = "UHD_RX_METADATA_ERROR_CODE_OVERFLOW" /\ out_of_sequence
            -> <<"OutOfSequence">>
      [] code = "UHD_RX_METADATA_ERROR_CODE_ALIGNMENT" -> <<"Alignment">>
      [] code = "UHD_RX_METADATA_ERROR_CODE_BAD_PACKET" -> <<"BadPacket">>
      [] code = "UHD_RX_METADATA_ERROR_CODE_NONE" -> <<>>
      [] OTHER -> <<"Other">>

\* A variant of the match of last_error whose wildcard arm reports no error.
last_error_kind_lenient(code, out_of_sequence) ==
    CASE code = "UHD_RX_METADATA_ERROR_CODE_TIMEOUT" -> <<"Timeout">>
      [] code = "UHD_RX_METADATA_ERROR_CODE_LATE_COMMAND" -> <<"LateCommand">>
      [] code = "UHD_RX_METADATA_ERROR_CODE_BROKEN_CHAIN" -> <<"BrokenChain">>
      [] code = "UHD_RX_METADATA_ERROR_CODE_OVERFLOW" /\ ~out_of_sequence
            -> <<"Overflow">>
      [] code = "UHD_RX_METADATA_ERROR_CODE_OVERFLOW" /\ out_of_sequence
            -> <<"OutOfSequence">>
      [] code = "UHD_RX_METADATA_ERROR_CODE_ALIGNMENT" -> <<"Alignment">>
      [] code = "UHD_RX_METADATA_ERROR_CODE_BAD_PACKET" -> <<"BadPacket">>
      [] OTHER -> <<>>

\* A variant of the match of last_error without the broken-chain arm.
last_error_kind_no_chain(code, out_of_sequence) ==
    CASE code = "UHD_RX_METADATA_ERROR_CODE_TIMEOUT" -> <<"Timeout">>
      [] code = "UHD_RX_METADATA_ERROR_CODE_LATE_COMMAND" -> <<"LateCommand">>
      [] code = "UHD_RX_METADATA_ERROR_CODE_OVERFLOW" /\ ~out_of_sequence
            -> <<"Overflow">>
      [] code = "UHD_RX_METADATA_ERROR_CODE_OVERFLOW" /\ out_of_sequence
            -> <<"OutOfSequence">>
      [] code = "UHD_RX_METADATA_ERROR_CODE_ALIGNMENT" -> <<"Alignment">>
      [] code = "UHD_RX_METADATA_ERROR_CODE_BAD_PACKET" -> <<"BadPacket">>
      [] code = "UHD_RX_METADATA_ERROR_CODE_NONE" -> <<>>
      [] OTHER -> <<"Other">>

\* The match of last_error: <<>> is the early `return None`, <<k>> the kind.
last_error_kind(code, out_of_sequence) ==
    CASE code = "UHD_RX_METADATA_ERROR_CODE_TIMEOUT" -> <<"Timeout">>
      [] code = "UHD_RX_METADATA_ERROR_CODE_LATE_COMMAND" -> <<"LateCommand">>
      [] code = "UHD_RX_METADATA_ERROR_CODE_BROKEN_CHAIN" -> <<"BrokenChain">>
      [] code = "UHD_RX_METADATA_ERROR_CODE_OVERFLOW" /\ ~out_of_sequence
            -> <<"Overflow">>
      [] code = "UHD_RX_METADATA_ERROR_CODE_OVERFLOW" /\ out_of_sequence
            -> <<"OutOfSequence">>
      [] code = "UHD_RX_METADATA_ERROR_CODE_ALIGNMENT" -> <<"Alignment">>
      [] code = "UHD_RX_METADATA_ERROR_CODE_BAD_PACKET" -> <<"BadPacket">>
      [] code = "UHD_RX_METADATA_ERROR_CODE_NONE" -> <<>>
      [] OTHER -> <<"Other">>

(***************************************************************************)
(* stream.rs                                                               *)
(***************************************************************************)
\* StreamTime and StreamCommandType values.
Now == [tag |-> "Now"]
Later(seconds, fraction) ==
    [tag |-> "Later", seconds |-> seconds, fraction |-> fraction]
StartContinuous == [tag |-> "StartContinuous"]
StopContinuous == [tag |-> "StopContinuous"]
CountAndDone(samples) == [tag |-> "CountAndDone", samples |-> samples]
CountAndMore(samples) == [tag |-> "CountAndMore", samples |-> samples]
StreamCommand(time, command_type) ==
    [time |-> time, command_type |-> command_type]

\* The build: the ranges of the native count type and of the native time_t.
Builds ==
    [count_max : {NarrowCountMax, HostCountMax},
     secs_max : {NarrowSecsMax, HostSecsMax}]

\* A variant of try_into that wraps a value that does not fit, as `as` does.
try_into_wrapping(v, lo, hi) ==
    IF lo <= v /\ v <= hi THEN <<v>> ELSE <<lo + ((v - lo) % (hi - lo + 1))>>

\* try_into: <<v>> when v fits lo..hi, <<>> (an Err, which expect turns
\* into a panic) otherwise.
try_into(v, lo, hi) == IF lo <= v /\ v <= hi THEN <<v>> ELSE <<>>

Panic(message) == [tag |-> "Panic", message |-> message]

\* The first match of as_c_command, on self.time.
c_cmd_time(c_cmd, time, b) ==
    IF time.tag = "Now"
    THEN Ok([c_cmd EXCEPT !.stream_now = TRUE])
    ELSE LET secs == try_into(time.seconds, -b.secs_max, b.secs_max)
         IN IF secs = <<>>
            THEN Panic("Timespec seconds too large to fit into a time_t")
            ELSE Ok([c_cmd EXCEPT !.time_spec_full_secs = secs[1],
                                  !.time_spec_frac_secs = time.fraction])

\* A variant of the second match whose CountAndMore arm sets the mode of
\* CountAndDone.
c_cmd_type_same_mode(c_cmd, command_type, b) ==
    CASE command_type.tag = "StartContinuous" ->
            Ok([c_cmd EXCEPT !.stream_mode = "UHD_STREAM_MODE_START_CONTINUOUS"])
      [] command_type.tag = "StopContinuous" ->
            Ok([c_cmd EXCEPT !.stream_mode = "UHD_STREAM_MODE_STOP_CONTINUOUS"])
      [] OTHER ->
            LET n == try_into(command_type.samples, 0, b.count_max)
            IN IF n = <<>>
               THEN Panic("Number of samples too large for size_t")
               ELSE Ok([c_cmd EXCEPT
                          !.stream_mode = "UHD_STREAM_MODE_NUM_SAMPS_AND_DONE",
                          !.num_samps = n[1]])

\* The second match of as_c_command, on self.command_type.
c_cmd_type(c_cmd, command_type, b) ==
    CASE command_type.tag = "StartContinuous" ->
            Ok([c_cmd EXCEPT !.stream_mode = "UHD_STREAM_MODE_START_CONTINUOUS"])
      [] command_type.tag = "StopContinuous" ->
            Ok([c_cmd EXCEPT !.stream_mode = "UHD_STREAM_MODE_STOP_CONTINUOUS"])
      [] command_type.tag = "CountAndDone" ->
            LET n == try_into(command_type.samples, 0, b.count_max)
            IN IF n = <<>>
               THEN Panic("Number of samples too large for size_t")
               ELSE Ok([c_cmd EXCEPT
                          !.stream_mode = "UHD_STREAM_MODE_NUM_SAMPS_AND_DONE",
                          !.num_samps = n[1]])
      [] command_type.tag = "CountAndMore" ->
            LET n == try_into(command_type.samples, 0, b.count_max)
            IN IF n = <<>>
               THEN Panic("Number of samples too large for size_t")
               ELSE Ok([c_cmd EXCEPT
                          !.stream_mode = "UHD_STREAM_MODE_NUM_SAMPS_AND_MORE",
                          !.num_samps = n[1]])

\* StreamCommand::as_c_command: Ok(uhd_stream_cmd_t) or the panic of expect.
as_c_command(self, b) ==
    LET c_cmd == [stream_mode |-> "UHD_STREAM_MODE_START_CONTINUOUS",
                  num_samps |-> 0,
                  stream_now |-> FALSE,
                  time_spec_full_secs |-> 0,
                  time_spec_frac_secs |-> 0]
        timed == c_cmd_time(c_cmd, self.time, b)
    IN IF timed.tag = "Panic"
       THEN timed
       ELSE c_cmd_type(timed.value, self.command_type, b)

(***************************************************************************)
(* stream.rs: stream arguments.  A string is the sequence of its bytes;    *)
(* only the null byte and a few letters and digits occur.                  *)
(***************************************************************************)
NUL == "nul"

\* The sample types that implement Item.
Items == { "Complex64", "Complex32", "Complex<i16>", "Complex<i8>" }

\* Item::FORMAT
FORMAT(I) ==
    CASE I = "Complex64" -> <<"f", "c", "6", "4">>
      [] I = "Complex32" -> <<"f", "c", "3", "2">>
      [] I = "Complex<i16>" -> <<"s", "c", "1", "6">>
      [] I = "Complex<i8>" -> <<"s", "c", "8">>

\* CString::new: the bytes, or NulError when one of them is the null byte.
NulError == [tag |-> "NulError"]

\* A variant of CString::new that accepts every byte.
CStringNew_any(bytes) == Ok(bytes)

CStringNew(bytes) ==
    IF \E i \in 1..Len(bytes) : bytes[i] = NUL THEN NulError ELSE Ok(bytes)

\* StreamArgs<I>: host_format is PhantomData<I>, it holds the type only.
StreamArgs(I, wire_format, args, channels) ==
    [host_format |-> I, wire_format |-> wire_format, args |-> args,
     channels |-> channels]

\* StreamArgs::default and StreamArgs::new
StreamArgsDefault(I) == StreamArgs(I, <<"s", "c", "1", "6">>, <<>>, <<>>)
StreamArgsNew(I, wire_format) ==
    [StreamArgsDefault(I) EXCEPT !.wire_format = wire_format]

\* A variant of the conversion that takes the host format from the wire
\* format the caller set.
StreamArgsC_host_from_wire(args) ==
    LET h == CStringNew(args.wire_format)
        w == CStringNew(args.wire_format)
        a == CStringNew(args.args)
    IN IF h.tag # "Ok" THEN h
       ELSE IF w.tag # "Ok" THEN w
       ELSE IF a.tag # "Ok" THEN a
       ELSE Ok([host_format |-> h.value, wire_format |-> w.value,
                args |-> a.value, channels |-> args.channels])

\* TryFrom<&StreamArgs<I>> for StreamArgsC
StreamArgsC(args) ==
    LET h == CStringNew(FORMAT(args.host_format))
        w == CStringNew(args.wire_format)
        a == CStringNew(args.args)
    IN IF h.tag # "Ok" THEN h
       ELSE IF w.tag # "Ok" THEN w
       ELSE IF a.tag # "Ok" THEN a
       ELSE Ok([host_format |-> h.value, wire_format |-> w.value,
                args |-> a.value, channels |-> args.channels])

\* From<NulError> for Error
FromNulError == ErrorNew("NullByte")

(***************************************************************************)
(* transmitter/metadata.rs                                                 *)
(***************************************************************************)
\* The native object behind a handle made with the defaults of
\* TransmitMetadata::default.
NativeTxMetadataMake ==
    [has_time_spec |-> FALSE, start_of_burst |-> FALSE, end_of_burst |-> FALSE]

\* TransmitMetadata::default: the struct built once uhd_tx_metadata_make succeeded.
TransmitMetadataDefault == [handle |-> NativeTxMetadataMake, samples |-> 0]

\* TransmitMetadata::samples
TxSamples(md) == md.samples

\* A variant of set_samples that leaves the field alone.
TxSetSamples_noop(md, samples) == md

\* TransmitMetadata::set_samples
TxSetSamples(md, samples) == [md EXCEPT !.samples = samples]

(***************************************************************************)
(* utils.rs: check_equal_buffer_lengths.  A buffer is represented by its   *)
(* length.                                                                 *)
(***************************************************************************)
check_equal_buffer_lengths(buffers) ==
    IF buffers = <<>>
    THEN Ok(0)
    ELSE IF \A i \in 1..Len(buffers) : buffers[i] = buffers[1]
         THEN Ok(buffers[1])
         ELSE Panic("Unequal buffer sizes")

(***************************************************************************)
(* The inputs of the calls and the behaviours of the native library.       *)
(***************************************************************************)
\* uhd_get_last_error: a short text, a text longer than the first buffer,
\* invalid UTF-8, a text longer than the last buffer, a failure followed by
\* successes, and as many failures as the stack can hold frames for.
Getters ==
    { Getter(0, 0, TRUE), Getter(0, 200, TRUE), Getter(0, 3, FALSE),
      Getter(0, MAX_SIZE, TRUE), Getter(1, 0, TRUE),
      Getter(StackLimit, 0, TRUE) }

\* What a native entry point returns, with the behaviour of
\* uhd_get_last_error during the call.
NativeReturn(status, getter) == [status |-> status, getter |-> getter]

ReturnsNone == NativeReturn(UHD_ERROR_NONE, Getter(0, 0, TRUE))

\* Every status with a short last-error text, and one failing status with
\* every behaviour of the getter.
NativeReturns ==
    { NativeReturn(s, Getter(0, 0, TRUE)) : s \in Statuses } \cup
    { NativeReturn("UHD_ERROR_RUNTIME", g) : g \in Getters }

\* The returns drawn for the auxiliary native calls (make, getters).
AuxReturns ==
    { ReturnsNone,
      NativeReturn("UHD_ERROR_INVALID_DEVICE", Getter(0, 0, TRUE)),
      NativeReturn("UHD_ERROR_UNKNOWN", Getter(StackLimit, 0, TRUE)) }

\* uhd_rx_metadata_strerror
StrErrors ==
    { NativeText(UHD_ERROR_NONE, 0, TRUE), NativeText(UHD_ERROR_NONE, 200, TRUE),
      NativeText("UHD_ERROR_UNKNOWN", 0, TRUE) }

Timeouts == { 0, 1 }
Fractions == { 0, 5 }

Times ==
    { Now } \cup
    { Later(s, f) : s \in (-HostSecsMax)..HostSecsMax, f \in Fractions }

CommandTypes ==
    { StartContinuous, StopContinuous } \cup
    { CountAndDone(n) : n \in 0..HostCountMax } \cup
    { CountAndMore(n) : n \in 0..HostCountMax }

Commands == { StreamCommand(t, c) : t \in Times, c \in CommandTypes }

\* The buffers of a transmit call: one length per buffer.
BufferLists ==
    UNION { [1..k -> 0..MaxBufLen] : k \in 0..(MaxChannels + 1) }

(***************************************************************************)
(* State.                                                                  *)
(***************************************************************************)
VARIABLES
    alive,            \* the process has not been aborted
    build,            \* the widths of the native count and time types
    rx_channels,      \* channel count of the native receive streamer
    tx_channels,      \* channel count of the native transmit streamer
    buffer_pointers,  \* TransmitStreamer::buffer_pointers
    last,             \* the most recent call and its outcome
    handles,          \* the native handles and the wrappers that own them
    threads,          \* where each thread is in its call on a shared streamer
    stream,           \* the stream state of the device behind the streamer
    copy              \* a copy_string call in progress, and a BufferSizes

vars ==
    <<alive, build, rx_channels, tx_channels, buffer_pointers, last, handles,
      threads, stream, copy>>

\* One check_status call: the status it was given and what came of it.
Check(r) == [status |-> r.status, result |-> check_status(r.status, r.getter)]

\* The record of a call: `outcome` is "returned", "panicked" or "aborted";
\* `native` lists the native entry points reached, in order; `checks` lists
\* the check_status calls made, in order.
Call(op, args, outcome, ret, native, checks) ==
    [op |-> op, args |-> args, outcome |-> outcome, ret |-> ret,
     native |-> native, checks |-> checks]

\* No call made yet, or the result of the last one dropped.
Idle == Call("idle", <<>>, "returned", <<>>, <<>>, <<>>)

\* What unwrap makes of a check_status result that is not Ok.
Unwrap(result) == IF result.tag = "Err" THEN "panicked" ELSE "aborted"

NativeFns(l) == { l.native[i].fn : i \in 1..Len(l.native) }

\* A slot of the handle table: the kind of wrapper, whether the wrapper is
\* not constructed ("none"), in scope ("live") or gone ("dropped"), the
\* native make and free calls made on the handle, in order, and for a
\* streamer the device it was made from.
NoHandle == [kind |-> "none", wrapper |-> "none", calls |-> <<>>, device |-> 0]
NoHandles == [h \in 1..MaxHandles |-> NoHandle]

\* A thread that is in no call: `op` is the call it is in, `at` the native
\* entry point of that call it is inside.
IdleThread == [op |-> "none", at |-> "none"]
IdleThreads == [t \in 1..MaxThreads |-> IdleThread]

\* The device is not streaming.  `remaining` and `more` are the budget of a
\* bounded stream and whether it expects a follow-on command; `broken`: the
\* budget of such a stream ran out with no follow-on command; `event`: what
\* the last native receive did to the stream; `from`: the mode before the
\* last native call on the streamer.
IdleStream ==
    [mode |-> "Idle", remaining |-> 0, more |-> FALSE, broken |-> FALSE,
     from |-> "Idle", event |-> "none"]

\* No copy_string call in progress, and a BufferSizes just made.
NoCopy ==
    [pc |-> "idle", op |-> Operation(NativeText(UHD_ERROR_NONE, 0, TRUE), 0),
     getter |-> Getter(0, 0, TRUE), iter |-> BufferSizesNew,
     buffer |-> VecNew, calls |-> <<>>, result |-> <<>>,
     sizes |-> BufferSizesNew, yielded |-> <<>>]

\* The streamers exist; the caller holds no result.
InitRx ==
    /\ alive = TRUE
    /\ build \in Builds
    /\ rx_channels \in 1..MaxChannels
    /\ tx_channels = 1
    /\ buffer_pointers = <<>>
    /\ last = Idle
    /\ handles = NoHandles
    /\ threads = IdleThreads
    /\ stream = IdleStream
    /\ copy = NoCopy

InitTx ==
    /\ alive = TRUE
    /\ build = [count_max |-> HostCountMax, secs_max |-> HostSecsMax]
    /\ rx_channels = 1
    /\ tx_channels \in 1..MaxChannels
    /\ buffer_pointers = <<>>
    /\ last = Idle
    /\ handles = NoHandles
    /\ threads = IdleThreads
    /\ stream = IdleStream
    /\ copy = NoCopy

(***************************************************************************)
(* receive_streamer.rs                                                     *)
(***************************************************************************)
\* ReceiveStreamer::send_command
SendCommand(command) ==
    /\ alive
    /\ last = Idle
    /\ \E r \in NativeReturns :
         LET command_c == as_c_command(command, build)
             chk == Check(r)
             issue == [fn |-> "uhd_rx_streamer_issue_stream_cmd",
                       stream_cmd |-> command_c.value]
         IN last' =
              IF command_c.tag = "Panic"
              THEN Call("send_command", command, "panicked", command_c,
                        <<>>, <<>>)
              ELSE IF chk.result.tag = "StackOverflow"
                   THEN Call("send_command", command, "aborted", chk.result,
                             <<issue>>, <<chk>>)
                   ELSE Call("send_command", command, "returned", chk.result,
                             <<issue>>, <<chk>>)
    /\ alive' = (last'.outcome # "aborted")
    /\ UNCHANGED <<build, rx_channels, tx_channels, buffer_pointers>>

\* What uhd_rx_streamer_recv writes when it succeeds: the metadata behind
\* the handle and the sample count.
RecvWrites(buffer) ==
    [received : 0..buffer, error_code : RxErrorCodes,
     out_of_sequence : BOOLEAN, end_of_burst : BOOLEAN]

\* The behaviours of the native library during one receive call: the make
\* fails; the recv fails; the recv succeeds; and, when the streamer has more
\* channels than the one pointer it is handed, the recv reads out of bounds
\* and may as well fault.
RecvBehaviours(buffer, channels) ==
    LET w0 == [received |-> 0,
               error_code |-> UHD_RX_METADATA_ERROR_CODE_NONE,
               out_of_sequence |-> FALSE, end_of_burst |-> FALSE]
    IN [make : AuxReturns \ {ReturnsNone}, recv : {ReturnsNone},
        writes : {w0}, fault : {FALSE}]
       \cup
       [make : {ReturnsNone}, recv : NativeReturns \ {ReturnsNone},
        writes : {w0}, fault : {FALSE}]
       \cup
       [make : {ReturnsNone}, recv : {ReturnsNone},
        writes : RecvWrites(buffer), fault : {FALSE}]
       \cup
       [make : {ReturnsNone}, recv : {ReturnsNone},
        writes : {w0}, fault : {TRUE} \cap {channels > 1}]

\* ReceiveStreamer::receive.  The buffer is represented by its length.
Receive(buffer, timeout, one_packet) ==
    /\ alive
    /\ last = Idle
    /\ \E e \in RecvBehaviours(buffer, rx_channels) :
         LET args == [buffer |-> buffer, timeout |-> timeout,
                      one_packet |-> one_packet]
             made == Check(e.make)
             make == [fn |-> "uhd_rx_metadata_make"]
             free == [fn |-> "uhd_rx_metadata_free"]
             metadata == [ReceiveMetadataDefault EXCEPT !.handle =
                             [error_code |-> e.writes.error_code,
                              out_of_sequence |-> e.writes.out_of_sequence,
                              end_of_burst |-> e.writes.end_of_burst]]
             samples_received == e.writes.received
             recv == [fn |-> "uhd_rx_streamer_recv", n_buffers |-> 1,
                      channels |-> rx_channels,
                      samps_per_buff |-> buffer, timeout |-> timeout,
                      one_packet |-> one_packet, status |-> e.recv.status,
                      md_error_code |-> e.writes.error_code,
                      md_out_of_sequence |-> e.writes.out_of_sequence,
                      md_end_of_burst |-> e.writes.end_of_burst,
                      items_recvd |-> e.writes.received]
             chk == Check(e.recv)
         IN last' =
              IF made.result.tag # "Ok"
              THEN Call("receive", args, Unwrap(made.result), made.result,
                        <<make>>, <<made>>)
              ELSE IF e.fault
              THEN Call("receive", args, "aborted", [tag |-> "Fault"],
                        <<make, recv>>, <<made>>)
              ELSE IF chk.result.tag = "StackOverflow"
              THEN Call("receive", args, "aborted", chk.result,
                        <<make, recv>>, <<made, chk>>)
              ELSE IF chk.result.tag = "Err"
              THEN Call("receive", args, "returned", chk.result,
                        <<make, recv, free>>, <<made, chk>>)
              ELSE Call("receive", args, "returned",
                        Ok(<<metadata, samples_received>>),
                        <<make, recv>>, <<made, chk>>)
    /\ alive' = (last'.outcome # "aborted")
    /\ UNCHANGED <<build, rx_channels, tx_channels, buffer_pointers>>

(***************************************************************************)
(* receive_metadata.rs: the calls on a metadata the caller holds.          *)
(***************************************************************************)
\* ReceiveMetadata::new
RxMetadataNew ==
    /\ alive
    /\ last = Idle
    /\ \E r \in AuxReturns :
         LET made == Check(r)
             make == [fn |-> "uhd_rx_metadata_make"]
         IN last' =
              IF made.result.tag # "Ok"
              THEN Call("rx_metadata_new", <<>>, Unwrap(made.result),
                        made.result, <<make>>, <<made>>)
              ELSE Call("rx_metadata_new", <<>>, "returned",
                        ReceiveMetadataDefault, <<make>>, <<made>>)
    /\ alive' = (last'.outcome # "aborted")
    /\ UNCHANGED <<build, rx_channels, tx_channels, buffer_pointers>>

\* The receive metadata in the caller's hands after the last call.
HoldsRxMetadata(l) ==
    \/ l.op = "receive" /\ l.outcome = "returned" /\ l.ret.tag = "Ok"
    \/ l.op = "rx_metadata_new" /\ l.outcome = "returned"
    \/ l.op = "last_error" /\ l.outcome # "aborted"

HeldRxMetadata(l) ==
    CASE l.op = "receive" -> l.ret.value[1]
      [] l.op = "rx_metadata_new" -> l.ret
      [] l.op = "last_error" -> l.args

\* The behaviours of the native library during one last_error call: a
\* getter fails, or both succeed and strerror behaves in one of its ways.
LastErrorBehaviours ==
    [oos : AuxReturns \ {ReturnsNone}, code : {ReturnsNone},
     strerror : {NativeText(UHD_ERROR_NONE, 0, TRUE)},
     getter : {Getter(0, 0, TRUE)}]
    \cup
    [oos : {ReturnsNone}, code : AuxReturns \ {ReturnsNone},
     strerror : {NativeText(UHD_ERROR_NONE, 0, TRUE)},
     getter : {Getter(0, 0, TRUE)}]
    \cup
    [oos : {ReturnsNone}, code : {ReturnsNone}, strerror : StrErrors,
     getter : {Getter(0, 0, TRUE), Getter(StackLimit, 0, TRUE)}]

\* ReceiveMetadata::last_error on the metadata held: out_of_sequence(),
\* error_code(), the match, then the message through copy_string.
\* The return value is <<>> for None and <<[kind, message]>> for Some.
LastError ==
    /\ alive
    /\ HoldsRxMetadata(last)
    /\ \E e \in LastErrorBehaviours :
         LET self == HeldRxMetadata(last)
             oos_chk == Check(e.oos)
             code_chk == Check(e.code)
             str_chk == Check(NativeReturn(e.strerror.status, e.getter))
             oos_call == [fn |-> "uhd_rx_metadata_out_of_sequence"]
             code_call == [fn |-> "uhd_rx_metadata_error_code"]
             str_call == [fn |-> "uhd_rx_metadata_strerror"]
             kind == last_error_kind(self.handle.error_code,
                                     self.handle.out_of_sequence)
             copied == copy_string(e.strerror, e.getter)
             message == IF copied.tag = "Ok" THEN <<copied.value>> ELSE <<>>
         IN last' =
              IF oos_chk.result.tag # "Ok"
              THEN Call("last_error", self, Unwrap(oos_chk.result),
                        oos_chk.result, <<oos_call>>, <<oos_chk>>)
              ELSE IF code_chk.result.tag # "Ok"
              THEN Call("last_error", self, Unwrap(code_chk.result),
                        code_chk.result, <<oos_call, code_call>>,
                        <<oos_chk, code_chk>>)
              ELSE IF kind = <<>>
              THEN Call("last_error", self, "returned", <<>>,
                        <<oos_call, code_call>>, <<oos_chk, code_chk>>)
              ELSE IF copied.tag = "StackOverflow"
              THEN Call("last_error", self, "aborted", copied,
                        <<oos_call, code_call, str_call>>,
                        <<oos_chk, code_chk, str_chk>>)
              ELSE Call("last_error", self, "returned",
                        <<[kind |-> kind[1], message |-> message]>>,
                        <<oos_call, code_call, str_call>>,
                        <<oos_chk, code_chk, str_chk>>)
    /\ alive' = (last'.outcome # "aborted")
    /\ UNCHANGED <<build, rx_channels, tx_channels, buffer_pointers>>

\* The caller lets go of what the last call gave it (Drop for
\* ReceiveMetadata and for TransmitMetadata free the native handle).
DropResult ==
    /\ alive
    /\ last # Idle
    /\ last' = Idle
    /\ UNCHANGED <<alive, build, rx_channels, tx_channels, buffer_pointers>>

(***************************************************************************)
(* transmitter/streamer.rs                                                 *)
(***************************************************************************)
\* A variant of the resize of transmit with one entry too many.
InitializedPointers_one_more(pointers, num_channels) ==
    IF pointers = <<>> THEN [i \in 1..(num_channels + 1) |-> 0] ELSE pointers

\* The resize of transmit: buffer_pointers once it is initialised.
\* A null pointer is 0; the pointer to the caller's i-th buffer is i.
InitializedPointers(pointers, num_channels) ==
    IF pointers = <<>> THEN [i \in 1..num_channels |-> 0] ELSE pointers

\* A variant of the assert_eq of transmit that lets fewer buffers through.
assert_le_buffers(buffers, pointers) == Len(buffers) <= Len(pointers)

\* The assert_eq of transmit: it panics unless this holds.
assert_eq_buffers(buffers, pointers) == Len(buffers) = Len(pointers)

\* The loop of transmit that copies the buffers' pointers into the entries.
CopiedPointers(pointers, buffers) ==
    [i \in 1..Len(pointers) |-> IF i <= Len(buffers) THEN i ELSE pointers[i]]

\* The behaviours of the native library during one transmit call: the make
\* fails; num_channels fails; the send fails; the send succeeds.
SendBehaviours(buffers) ==
    LET most == IF buffers = <<>> THEN 0 ELSE buffers[1]
    IN [make : AuxReturns \ {ReturnsNone}, num_channels : {ReturnsNone},
        send : {ReturnsNone}, sent : {0}]
       \cup
       [make : {ReturnsNone}, num_channels : AuxReturns \ {ReturnsNone},
        send : {ReturnsNone}, sent : {0}]
       \cup
       [make : {ReturnsNone}, num_channels : {ReturnsNone},
        send : NativeReturns \ {ReturnsNone}, sent : {0}]
       \cup
       [make : {ReturnsNone}, num_channels : {ReturnsNone},
        send : {ReturnsNone}, sent : 0..most]

\* TransmitStreamer::transmit.  `buffers` holds the length of each buffer.
Transmit(buffers, timeout) ==
    /\ alive
    /\ last = Idle
    /\ \E e \in SendBehaviours(buffers) :
         LET args == [buffers |-> buffers, timeout |-> timeout]
             made == Check(e.make)
             make == [fn |-> "uhd_tx_metadata_make"]
             free == [fn |-> "uhd_tx_metadata_free"]
             metadata == TransmitMetadataDefault
             empty == buffer_pointers = <<>>
             nc_chk == Check(e.num_channels)
             nc_call == [fn |-> "uhd_tx_streamer_num_channels"]
             pre == IF empty THEN <<make, nc_call>> ELSE <<make>>
             pre_chk == IF empty THEN <<made, nc_chk>> ELSE <<made>>
             resized == InitializedPointers(buffer_pointers, tx_channels)
             buffer_length == check_equal_buffer_lengths(buffers)
             copied == CopiedPointers(resized, buffers)
             samples_transmitted == e.sent
             send == [fn |-> "uhd_tx_streamer_send", channels |-> tx_channels,
                      buffs |-> copied,
                      samps_per_buff |-> buffer_length.value,
                      timeout |-> timeout, status |-> e.send.status,
                      items_sent |-> e.sent]
             chk == Check(e.send)
             r == IF made.result.tag # "Ok"
                  THEN [call |-> Call("transmit", args, Unwrap(made.result),
                                      made.result, <<make>>, <<made>>),
                        pointers |-> buffer_pointers]
                  ELSE IF empty /\ nc_chk.result.tag = "StackOverflow"
                  THEN [call |-> Call("transmit", args, "aborted",
                                      nc_chk.result, pre, pre_chk),
                        pointers |-> buffer_pointers]
                  ELSE IF empty /\ nc_chk.result.tag = "Err"
                  THEN [call |-> Call("transmit", args, "panicked",
                                      nc_chk.result, pre \o <<free>>, pre_chk),
                        pointers |-> buffer_pointers]
                  ELSE IF ~assert_eq_buffers(buffers, resized)
                  THEN [call |-> Call("transmit", args, "panicked",
                                      Panic("Number of buffers is not equal to this streamer's number of channels"),
                                      pre \o <<free>>, pre_chk),
                        pointers |-> resized]
                  ELSE IF buffer_length.tag = "Panic"
                  THEN [call |-> Call("transmit", args, "panicked",
                                      buffer_length, pre \o <<free>>, pre_chk),
                        pointers |-> resized]
                  ELSE IF chk.result.tag = "StackOverflow"
                  THEN [call |-> Call("transmit", args, "aborted", chk.result,
                                      pre \o <<send>>, pre_chk \o <<chk>>),
                        pointers |-> copied]
                  ELSE IF chk.result.tag = "Err"
                  THEN [call |-> Call("transmit", args, "returned", chk.result,
                                      pre \o <<send, free>>,
                                      pre_chk \o <<chk>>),
                        pointers |-> copied]
                  ELSE [call |-> Call("transmit", args, "returned",
                                      Ok(TxSetSamples(metadata,
                                                      samples_transmitted)),
                                      pre \o <<send>>, pre_chk \o <<chk>>),
                        pointers |-> copied]
         IN /\ last' = r.call
            /\ buffer_pointers' = r.pointers
    /\ alive' = (last'.outcome # "aborted")
    /\ UNCHANGED <<build, rx_channels, tx_channels>>

(***************************************************************************)
(* usrp.rs and the handle-owning wrappers: the device, the receive         *)
(* streamer made from it, and the wrappers made by Default or new.         *)
(***************************************************************************)
\* The wrappers whose Default makes the handle and unwraps the status.
DefaultKinds ==
    { "rx_metadata", "tx_metadata", "meta_range", "mboard_eeprom",
      "dboard_eeprom" }

\* The native constructor and destructor of each kind of handle.
MakeFn(kind) ==
    CASE kind = "usrp" -> "uhd_usrp_make"
      [] kind = "rx_streamer" -> "uhd_rx_streamer_make"
      [] kind = "rx_metadata" -> "uhd_rx_metadata_make"
      [] kind = "tx_metadata" -> "uhd_tx_metadata_make"
      [] kind = "meta_range" -> "uhd_meta_range_make"
      [] kind = "string_vector" -> "uhd_string_vector_make"
      [] kind = "mboard_eeprom" -> "uhd_mboard_eeprom_make"
      [] kind = "dboard_eeprom" -> "uhd_dboard_eeprom_make"

FreeFn(kind) ==
    CASE kind = "usrp" -> "uhd_usrp_free"
      [] kind = "rx_streamer" -> "uhd_rx_streamer_free"
      [] kind = "rx_metadata" -> "uhd_rx_metadata_free"
      [] kind = "tx_metadata" -> "uhd_tx_metadata_free"
      [] kind = "meta_range" -> "uhd_meta_range_free"
      [] kind = "string_vector" -> "uhd_string_vector_free"
      [] kind = "mboard_eeprom" -> "uhd_mboard_eeprom_free"
      [] kind = "dboard_eeprom" -> "uhd_dboard_eeprom_free"

\* One native make call on a handle (ok: it returned the none status) and
\* one native free call (its status is ignored by every Drop).
Made(kind, ok) == [fn |-> MakeFn(kind), ok |-> ok]
Freed(kind) == [fn |-> FreeFn(kind), ok |-> TRUE]

HasFreeHandle == \E h \in 1..MaxHandles : handles[h].kind = "none"
NextHandle ==
    CHOOSE h \in 1..MaxHandles :
        /\ handles[h].kind = "none"
        /\ \A g \in 1..(h - 1) : handles[g].kind # "none"

\* A wrapper in scope after its make returned `status`.
LiveWrapper(kind, device) ==
    [kind |-> kind, wrapper |-> "live", calls |-> <<Made(kind, TRUE)>>,
     device |-> device]

\* The make failed before any wrapper was constructed.
FailedMake(kind) ==
    [kind |-> kind, wrapper |-> "none", calls |-> <<Made(kind, FALSE)>>,
     device |-> 0]

\* A variant of Drop that lets the wrapper go without the native free.
DropWrapper_leak(x) == [x EXCEPT !.wrapper = "dropped"]

\* Drop for Usrp, ReceiveStreamer, ReceiveMetadata, TransmitMetadata,
\* MetaRange, StringVector, MotherboardEeprom and DaughterBoardEeprom: one
\* native free on the handle.
DropWrapper(x) ==
    [x EXCEPT !.wrapper = "dropped", !.calls = Append(@, Freed(x.kind))]

\* A variant of the borrow in which the streamer type carries no lifetime.
Borrowed_never(d) == FALSE

\* The device d is mutably borrowed: get_rx_stream takes &mut self and the
\* streamer it returns carries that lifetime for as long as it is in scope.
Borrowed(d) ==
    \E h \in 1..MaxHandles :
        /\ handles[h].kind = "rx_streamer"
        /\ handles[h].wrapper = "live"
        /\ handles[h].device = d

LiveDevice(d) == handles[d].kind = "usrp" /\ handles[d].wrapper = "live"

\* ReceiveStreamer::new: a wrapper around the null handle.
ReceiveStreamerNew(device) ==
    [kind |-> "rx_streamer", wrapper |-> "live", calls |-> <<>>,
     device |-> device]

\* Usrp::open
UsrpOpen(args) ==
    /\ alive
    /\ last = Idle
    /\ HasFreeHandle
    /\ \E r \in AuxReturns :
         LET h == NextHandle
             args_c == CStringNew(args)
             chk == Check(r)
             make == [fn |-> "uhd_usrp_make"]
         IN IF args_c.tag # "Ok"
            THEN /\ last' = Call("open", args, "returned", FromNulError,
                                 <<>>, <<>>)
                 /\ handles' = handles
            ELSE /\ last' =
                      IF chk.result.tag = "StackOverflow"
                      THEN Call("open", args, "aborted", chk.result,
                                <<make>>, <<chk>>)
                      ELSE IF chk.result.tag = "Err"
                      THEN Call("open", args, "returned", chk.result,
                                <<make>>, <<chk>>)
                      ELSE Call("open", args, "returned", Ok(h),
                                <<make>>, <<chk>>)
                 /\ handles' =
                      [handles EXCEPT ![h] =
                          IF chk.result.tag = "Ok"
                          THEN LiveWrapper("usrp", 0)
                          ELSE FailedMake("usrp")]
    /\ alive' = (last'.outcome # "aborted")
    /\ UNCHANGED <<build, rx_channels, tx_channels, buffer_pointers>>

\* Drop for Usrp.  The device cannot be dropped while it is borrowed.
UsrpDrop(d) ==
    /\ alive
    /\ last = Idle
    /\ LiveDevice(d)
    /\ ~Borrowed(d)
    /\ handles' = [handles EXCEPT ![d] = DropWrapper(@)]
    /\ UNCHANGED <<alive, build, rx_channels, tx_channels, buffer_pointers,
                   last>>

\* The behaviours of the native library during get_rx_stream: the make
\* fails, or it succeeds and the association behaves in each way.
GetRxStreamBehaviours ==
    [make : AuxReturns \ {ReturnsNone}, assoc : {ReturnsNone}]
    \cup [make : {ReturnsNone}, assoc : AuxReturns]

\* Usrp::get_rx_stream on the device d.
GetRxStream(d, args) ==
    /\ alive
    /\ last = Idle
    /\ LiveDevice(d)
    /\ ~Borrowed(d)
    /\ HasFreeHandle
    /\ \E e \in GetRxStreamBehaviours :
         LET h == NextHandle
             converted == StreamArgsC(args)
             streamer == ReceiveStreamerNew(d)
             made == Check(e.make)
             assoc == Check(e.assoc)
             make_call == [fn |-> "uhd_rx_streamer_make", streamer |-> h]
             assoc_call ==
                 [fn |-> "uhd_usrp_get_rx_stream", device |-> d,
                  args_c |-> [cpu_format |-> converted.value.host_format,
                              otw_format |-> converted.value.wire_format,
                              args |-> converted.value.args,
                              channel_list |-> converted.value.channels,
                              n_channels |-> Len(converted.value.channels)],
                  streamer |-> h]
             free_call == [fn |-> "uhd_rx_streamer_free", streamer |-> h]
             with_make == [streamer EXCEPT !.calls =
                              Append(@, Made("rx_streamer",
                                             e.make.status = UHD_ERROR_NONE))]
         IN IF converted.tag # "Ok"
            THEN /\ last' = Call("get_rx_stream", args, "returned",
                                 FromNulError, <<>>, <<>>)
                 /\ handles' = handles
            ELSE IF made.result.tag = "StackOverflow"
            THEN /\ last' = Call("get_rx_stream", args, "aborted",
                                 made.result, <<make_call>>, <<made>>)
                 /\ handles' = [handles EXCEPT ![h] = with_make]
            ELSE IF made.result.tag = "Err"
            THEN /\ last' = Call("get_rx_stream", args, "returned",
                                 made.result, <<make_call, free_call>>,
                                 <<made>>)
                 /\ handles' = [handles EXCEPT ![h] = DropWrapper(with_make)]
            ELSE IF assoc.result.tag = "StackOverflow"
            THEN /\ last' = Call("get_rx_stream", args, "aborted",
                                 assoc.result, <<make_call, assoc_call>>,
                                 <<made, assoc>>)
                 /\ handles' = [handles EXCEPT ![h] = with_make]
            ELSE IF assoc.result.tag = "Err"
            THEN /\ last' = Call("get_rx_stream", args, "returned",
                                 assoc.result,
                                 <<make_call, assoc_call, free_call>>,
                                 <<made, assoc>>)
                 /\ handles' = [handles EXCEPT ![h] = DropWrapper(with_make)]
            ELSE /\ last' = Call("get_rx_stream", args, "returned", Ok(h),
                                 <<make_call, assoc_call>>, <<made, assoc>>)
                 /\ handles' = [handles EXCEPT ![h] = with_make]
    /\ alive' = (last'.outcome # "aborted")
    /\ UNCHANGED <<build, rx_channels, tx_channels, buffer_pointers>>

\* What a device call that makes one native call returns: the error of
\* check_status, or `value`.
DeviceCall(op, on, native_call, r, value) ==
    LET chk == Check(r)
    IN IF chk.result.tag = "StackOverflow"
       THEN Call(op, on, "aborted", chk.result, <<native_call>>, <<chk>>)
       ELSE IF chk.result.tag = "Err"
       THEN Call(op, on, "returned", chk.result, <<native_call>>, <<chk>>)
       ELSE Call(op, on, "returned", Ok(value), <<native_call>>, <<chk>>)

\* Usrp::get_rx_sample_rate on the device d (&self): the native call
\* writes the rate `value` when it succeeds.
get_rx_sample_rate(d, channel, value) ==
    /\ alive
    /\ last = Idle
    /\ LiveDevice(d)
    /\ ~Borrowed(d)
    /\ \E r \in AuxReturns :
         last' = DeviceCall("get_rx_sample_rate",
                            [device |-> d, channel |-> channel],
                            [fn |-> "uhd_usrp_get_rx_rate", device |-> d,
                             chan |-> channel],
                            r, value)
    /\ alive' = (last'.outcome # "aborted")
    /\ UNCHANGED <<build, rx_channels, tx_channels, buffer_pointers, handles>>

\* Usrp::set_rx_sample_rate on the device d (&mut self)
set_rx_sample_rate(d, rate, channel) ==
    /\ alive
    /\ last = Idle
    /\ LiveDevice(d)
    /\ ~Borrowed(d)
    /\ \E r \in AuxReturns :
         last' = DeviceCall("set_rx_sample_rate",
                            [device |-> d, rate |-> rate,
                             channel |-> channel],
                            [fn |-> "uhd_usrp_set_rx_rate", device |-> d,
                             rate |-> rate, chan |-> channel],
                            r, <<>>)
    /\ alive' = (last'.outcome # "aborted")
    /\ UNCHANGED <<build, rx_channels, tx_channels, buffer_pointers, handles>>

\* The fields of the native info struct in the order from_c converts them;
\* each is a C string that is valid UTF-8 or not.
InfoFields == 8

\* ReceiveInfo::from_c, as TransmitInfo::from_c: CStr::to_str on each
\* field in turn, leaving with the Utf8Error of the first that fails.
from_c(info_c) ==
    IF \E i \in 1..InfoFields : ~info_c[i]
    THEN ErrorNew("Utf8")
    ELSE Ok([i \in 1..InfoFields |-> "String"])

\* The behaviours of the native library during get_rx_info: the call
\* fails, or it fills the struct with strings of which at most one is not
\* valid UTF-8.
GetRxInfoBehaviours ==
    [get : AuxReturns \ {ReturnsNone},
     info_c : {[i \in 1..InfoFields |-> TRUE]}]
    \cup [get : {ReturnsNone},
          info_c : { [i \in 1..InfoFields |-> i # k] : k \in {0, 1, 5, 8} }]

\* Usrp::get_rx_info on the device d (&self)
get_rx_info(d, channel) ==
    /\ alive
    /\ last = Idle
    /\ LiveDevice(d)
    /\ ~Borrowed(d)
    /\ \E e \in GetRxInfoBehaviours :
         LET on == [device |-> d, channel |-> channel]
             chk == Check(e.get)
             info == from_c(e.info_c)
             get_call == [fn |-> "uhd_usrp_get_rx_info", device |-> d,
                          chan |-> channel, info_out |-> e.info_c]
             free_call == [fn |-> "uhd_usrp_rx_info_free"]
         IN last' =
              IF chk.result.tag = "StackOverflow"
              THEN Call("get_rx_info", on, "aborted", chk.result,
                        <<get_call>>, <<chk>>)
              ELSE IF chk.result.tag = "Err"
              THEN Call("get_rx_info", on, "returned", chk.result,
                        <<get_call>>, <<chk>>)
              ELSE IF info.tag # "Ok"
              THEN Call("get_rx_info", on, "returned", info,
                        <<get_call>>, <<chk>>)
              ELSE Call("get_rx_info", on, "returned", info,
                        <<get_call, free_call>>, <<chk>>)
    /\ alive' = (last'.outcome # "aborted")
    /\ UNCHANGED <<build, rx_channels, tx_channels, buffer_pointers, handles>>

\* Drop for ReceiveStreamer
StreamerDrop(h) ==
    /\ alive
    /\ last = Idle
    /\ handles[h].kind = "rx_streamer"
    /\ handles[h].wrapper = "live"
    /\ handles' = [handles EXCEPT ![h] = DropWrapper(@)]
    /\ UNCHANGED <<alive, build, rx_channels, tx_channels, buffer_pointers,
                   last>>

\* Default for ReceiveMetadata, TransmitMetadata, MetaRange,
\* MotherboardEeprom and DaughterBoardEeprom: make, then unwrap.
WrapperDefault(kind) ==
    /\ alive
    /\ last = Idle
    /\ HasFreeHandle
    /\ \E r \in AuxReturns :
         LET h == NextHandle
             chk == Check(r)
             make == [fn |-> MakeFn(kind)]
         IN /\ last' =
                 IF chk.result.tag # "Ok"
                 THEN Call("default", kind, Unwrap(chk.result), chk.result,
                           <<make>>, <<chk>>)
                 ELSE Call("default", kind, "returned", Ok(h),
                           <<make>>, <<chk>>)
            /\ handles' =
                 [handles EXCEPT ![h] =
                     IF chk.result.tag = "Ok"
                     THEN LiveWrapper(kind, 0)
                     ELSE FailedMake(kind)]
    /\ alive' = (last'.outcome # "aborted")
    /\ UNCHANGED <<build, rx_channels, tx_channels, buffer_pointers>>

\* StringVector::new: make, then the status as an Err.
StringVectorNew ==
    /\ alive
    /\ last = Idle
    /\ HasFreeHandle
    /\ \E r \in AuxReturns :
         LET h == NextHandle
             chk == Check(r)
             make == [fn |-> "uhd_string_vector_make"]
         IN /\ last' =
                 IF chk.result.tag = "StackOverflow"
                 THEN Call("string_vector_new", <<>>, "aborted", chk.result,
                           <<make>>, <<chk>>)
                 ELSE IF chk.result.tag = "Err"
                 THEN Call("string_vector_new", <<>>, "returned", chk.result,
                           <<make>>, <<chk>>)
                 ELSE Call("string_vector_new", <<>>, "returned", Ok(h),
                           <<make>>, <<chk>>)
            /\ handles' =
                 [handles EXCEPT ![h] =
                     IF chk.result.tag = "Ok"
                     THEN LiveWrapper("string_vector", 0)
                     ELSE FailedMake("string_vector")]
    /\ alive' = (last'.outcome # "aborted")
    /\ UNCHANGED <<build, rx_channels, tx_channels, buffer_pointers>>

\* Drop for the wrappers made by Default or new.
WrapperDrop(h) ==
    /\ alive
    /\ last = Idle
    /\ handles[h].kind \in DefaultKinds \cup {"string_vector"}
    /\ handles[h].wrapper = "live"
    /\ handles' = [handles EXCEPT ![h] = DropWrapper(@)]
    /\ UNCHANGED <<alive, build, rx_channels, tx_channels, buffer_pointers,
                   last>>

\* The metadata handle of a receive call l, from the native calls it made:
\* the make and the free, in the order they were made.  The wrapper is in
\* the caller's hands when receive returned Ok, gone when it was freed, and
\* never constructed when the make failed.
ReceiveMetadataHandle(l) ==
    LET sel == SelectSeq(l.native,
                   LAMBDA c : c.fn \in {"uhd_rx_metadata_make",
                                        "uhd_rx_metadata_free"})
        made_ok == l.checks[1].result.tag = "Ok"
        x == [kind |-> "rx_metadata",
              wrapper |-> IF made_ok THEN "live" ELSE "none",
              calls |-> <<Made("rx_metadata", made_ok)>>,
              device |-> 0]
    IN IF Len(sel) > 1 THEN DropWrapper(x) ELSE x

\* ReceiveStreamer::receive on the streamer s, with the metadata handle it
\* makes.
StreamerReceive(s, buffer, timeout, one_packet) ==
    /\ handles[s].kind = "rx_streamer"
    /\ handles[s].wrapper = "live"
    /\ handles[s].calls = <<Made("rx_streamer", TRUE)>>
    /\ HasFreeHandle
    /\ Receive(buffer, timeout, one_packet)
    /\ handles' = [handles EXCEPT ![NextHandle] = ReceiveMetadataHandle(last')]

\* The arguments drawn for open and get_rx_stream.
OpenArgs == { <<>>, <<"a", NUL>> }
RxStreamArgs ==
    { StreamArgsDefault("Complex32"),
      StreamArgsNew("Complex<i16>", <<"s", NUL>>),
      StreamArgs("Complex32", <<"s", "c", "1", "6">>, <<>>, <<0, 1>>),
      StreamArgs("Complex64", <<"s", "c", "1", "6">>, <<"a", NUL>>, <<>>) }

InitUsrp ==
    /\ alive = TRUE
    /\ build = [count_max |-> HostCountMax, secs_max |-> HostSecsMax]
    /\ rx_channels = 1
    /\ tx_channels = 1
    /\ buffer_pointers = <<>>
    /\ last = Idle
    /\ handles = NoHandles
    /\ threads = IdleThreads
    /\ stream = IdleStream
    /\ copy = NoCopy

(***************************************************************************)
(* Threads sharing one receive streamer and one transmit streamer (both    *)
(* are Send and Sync).  A call is split at the native entry points it      *)
(* enters; a thread inside a native entry point stays there until the      *)
(* native library returns.                                                 *)
(***************************************************************************)
\* The calls a thread can make, the streamer each is made on and the access
\* its receiver takes: &self is "shared", &mut self is "unique".
ThreadOps == { "send_command", "receive", "num_channels", "transmit" }

OpOn(op) ==
    CASE op \in {"send_command", "receive"} -> "rx"
      [] op \in {"num_channels", "transmit"} -> "tx"

\* A variant in which receive and transmit are declared with &self.
OpAccess_all_shared(op) == "shared"

OpAccess(op) ==
    CASE op \in {"send_command", "num_channels"} -> "shared"
      [] op \in {"receive", "transmit"} -> "unique"

\* The thread u is in a call on the streamer x.
Holding(u, x) == threads[u].op # "none" /\ OpOn(threads[u].op) = x

\* The thread t can take &self of x: no other thread holds &mut of it.
SharedBorrow(t, x) ==
    \A u \in 1..MaxThreads \ {t} :
        Holding(u, x) => OpAccess(threads[u].op) = "shared"

\* The thread t can take &mut self of x: no other thread is in any call
\* on it.
MutBorrow(t, x) == \A u \in 1..MaxThreads \ {t} : ~Holding(u, x)

\* The first native entry point a call enters.
FirstNative(op) ==
    CASE op = "send_command" -> "uhd_rx_streamer_issue_stream_cmd"
      [] op = "receive" -> "uhd_rx_metadata_make"
      [] op = "num_channels" -> "uhd_tx_streamer_num_channels"
      [] op = "transmit" -> "uhd_tx_metadata_make"

\* Where a call goes when the native entry point fn returns: the next
\* native entry point, or "return".  ok: the status is none; pre: the
\* buffers meet the precondition of transmit; first: buffer_pointers is
\* still empty.  A metadata that was made is freed on every path that does
\* not hand it to the caller.
AfterNative(op, fn, ok, pre, first) ==
    CASE op = "send_command" -> "return"
      [] op = "num_channels" -> "return"
      [] op = "receive" /\ fn = "uhd_rx_metadata_make" ->
            IF ok THEN "uhd_rx_streamer_recv" ELSE "return"
      [] op = "receive" /\ fn = "uhd_rx_streamer_recv" ->
            IF ok THEN "return" ELSE "uhd_rx_metadata_free"
      [] op = "receive" /\ fn = "uhd_rx_metadata_free" -> "return"
      [] op = "transmit" /\ fn = "uhd_tx_metadata_make" ->
            IF ~ok THEN "return"
            ELSE IF first THEN "uhd_tx_streamer_num_channels"
            ELSE IF pre THEN "uhd_tx_streamer_send"
            ELSE "uhd_tx_metadata_free"
      [] op = "transmit" /\ fn = "uhd_tx_streamer_num_channels" ->
            IF ok /\ pre THEN "uhd_tx_streamer_send"
            ELSE "uhd_tx_metadata_free"
      [] op = "transmit" /\ fn = "uhd_tx_streamer_send" ->
            IF ok THEN "return" ELSE "uhd_tx_metadata_free"
      [] op = "transmit" /\ fn = "uhd_tx_metadata_free" -> "return"

\* The thread t calls op and enters its first native entry point.
ThreadCall(t, op) ==
    /\ alive
    /\ threads[t] = IdleThread
    /\ IF OpAccess(op) = "unique"
       THEN MutBorrow(t, OpOn(op))
       ELSE SharedBorrow(t, OpOn(op))
    /\ threads' = [threads EXCEPT ![t] = [op |-> op, at |-> FirstNative(op)]]
    /\ UNCHANGED <<alive, build, rx_channels, tx_channels, buffer_pointers,
                   last, handles>>

\* The native entry point the thread t is inside returns, and the call
\* runs on to its next native entry point or to its return.
ThreadNativeReturns(t, ok, pre) ==
    /\ alive
    /\ threads[t] # IdleThread
    /\ LET op == threads[t].op
           fn == threads[t].at
           to == AfterNative(op, fn, ok, pre, buffer_pointers = <<>>)
       IN /\ threads' = [threads EXCEPT ![t] =
                            IF to = "return"
                            THEN IdleThread
                            ELSE [op |-> op, at |-> to]]
          /\ buffer_pointers' =
                IF op = "transmit" /\ fn = "uhd_tx_streamer_num_channels" /\ ok
                THEN InitializedPointers(buffer_pointers, tx_channels)
                ELSE buffer_pointers
    /\ UNCHANGED <<alive, build, rx_channels, tx_channels, last, handles>>

InitThreads ==
    /\ alive = TRUE
    /\ build = [count_max |-> HostCountMax, secs_max |-> HostSecsMax]
    /\ rx_channels = 1
    /\ tx_channels \in 1..MaxChannels
    /\ buffer_pointers = <<>>
    /\ last = Idle
    /\ handles = NoHandles
    /\ threads = IdleThreads
    /\ stream = IdleStream
    /\ copy = NoCopy

(***************************************************************************)
(* The device behind the receive streamer: its stream state, what a stream *)
(* command does to it and what a native receive delivers from it.          *)
(***************************************************************************)
\* The stream after uhd_rx_streamer_issue_stream_cmd accepted c_cmd.
DeviceIssue(st, c_cmd) ==
    LET mode == c_cmd.stream_mode
        n == c_cmd.num_samps
        counted == mode \in {"UHD_STREAM_MODE_NUM_SAMPS_AND_DONE",
                             "UHD_STREAM_MODE_NUM_SAMPS_AND_MORE"}
        expects == mode = "UHD_STREAM_MODE_NUM_SAMPS_AND_MORE"
        was == [st EXCEPT !.from = st.mode, !.event = "none"]
    IN CASE mode = "UHD_STREAM_MODE_START_CONTINUOUS" /\ st.mode = "Idle" ->
              [was EXCEPT !.mode = "Continuous"]
         [] mode = "UHD_STREAM_MODE_STOP_CONTINUOUS"
               /\ st.mode = "Continuous" ->
              [was EXCEPT !.mode = "Idle"]
         [] counted /\ n > 0 /\ st.mode = "Idle" ->
              [was EXCEPT !.mode = "Bounded", !.remaining = n,
                          !.more = expects]
         [] counted /\ n > 0 /\ st.mode = "Bounded" /\ st.more ->
              [was EXCEPT !.remaining = st.remaining + n, !.more = expects]
         [] OTHER -> was

\* What uhd_rx_streamer_recv can write into a buffer of the given length
\* when it returns the none status, with the stream it leaves behind.
DeviceRecv(st, buffer) ==
    LET was == [st EXCEPT !.from = st.mode, !.event = "none"]
        Writes(received, code, eob) ==
            [received |-> received, error_code |-> code,
             out_of_sequence |-> FALSE, end_of_burst |-> eob]
        timed_out ==
            [writes |-> Writes(0, "UHD_RX_METADATA_ERROR_CODE_TIMEOUT", FALSE),
             next |-> was]
        Delivered(k) ==
            LET left == st.remaining - k
            IN IF left > 0
               THEN [writes |-> Writes(k, UHD_RX_METADATA_ERROR_CODE_NONE,
                                       FALSE),
                     next |-> [was EXCEPT !.remaining = left]]
               ELSE IF st.more
               THEN [writes |-> Writes(k, UHD_RX_METADATA_ERROR_CODE_NONE,
                                       FALSE),
                     next |-> [was EXCEPT !.mode = "Idle", !.remaining = 0,
                                          !.more = FALSE, !.broken = TRUE,
                                          !.event = "exhausted"]]
               ELSE [writes |-> Writes(k, UHD_RX_METADATA_ERROR_CODE_NONE,
                                       TRUE),
                     next |-> [was EXCEPT !.mode = "Idle", !.remaining = 0,
                                          !.event = "completed"]]
    IN IF st.broken
       THEN { [writes |-> Writes(0, "UHD_RX_METADATA_ERROR_CODE_BROKEN_CHAIN",
                                 FALSE),
               next |-> [was EXCEPT !.broken = FALSE,
                                    !.event = "broken_chain"]] }
       ELSE CASE st.mode = "Idle" -> { timed_out }
              [] st.mode = "Continuous" ->
                   { timed_out } \cup
                   { [writes |-> Writes(k, UHD_RX_METADATA_ERROR_CODE_NONE,
                                        FALSE),
                      next |-> was] : k \in 1..buffer }
              [] st.mode = "Bounded" ->
                   { timed_out } \cup
                   { Delivered(k) :
                       k \in 1..(IF buffer < st.remaining
                                 THEN buffer ELSE st.remaining) }

\* ReceiveMetadata::end_of_burst, when its native getter succeeds.
RxEndOfBurst(md) == md.handle.end_of_burst

\* send_command on the streamer of the device.
StreamSendCommand(command) ==
    /\ SendCommand(command)
    /\ stream' =
          IF last'.outcome = "returned" /\ last'.ret.tag = "Ok"
          THEN DeviceIssue(stream, last'.native[1].stream_cmd)
          ELSE [stream EXCEPT !.from = stream.mode, !.event = "none"]
    /\ stream'.remaining <= MaxBudget

\* receive on the streamer of the device.
StreamReceive(buffer, timeout, one_packet) ==
    /\ Receive(buffer, timeout, one_packet)
    /\ IF /\ last'.outcome = "returned"
          /\ Len(last'.native) >= 2
          /\ last'.native[2].status = UHD_ERROR_NONE
       THEN \E o \in DeviceRecv(stream, buffer) :
               /\ last'.ret.value[1].handle
                     = [error_code |-> o.writes.error_code,
                        out_of_sequence |-> o.writes.out_of_sequence,
                        end_of_burst |-> o.writes.end_of_burst]
               /\ last'.ret.value[2] = o.writes.received
               /\ stream' = o.next
       ELSE stream' = [stream EXCEPT !.from = stream.mode, !.event = "none"]

\* The commands sent to the device: every command type, now or later.
StreamCommands ==
    { StreamCommand(t, c) : t \in {Now, Later(1, 5)}, c \in CommandTypes }

InitStream ==
    /\ alive = TRUE
    /\ build = [count_max |-> HostCountMax, secs_max |-> HostSecsMax]
    /\ rx_channels = 1
    /\ tx_channels = 1
    /\ buffer_pointers = <<>>
    /\ last = Idle
    /\ handles = NoHandles
    /\ threads = IdleThreads
    /\ stream = IdleStream
    /\ copy = NoCopy

(***************************************************************************)
(* copy_string, one step at a time: the iterator is asked for a size, the  *)
(* closure is invoked on the resized buffer, its status is checked and the *)
(* buffer is searched for a null byte.                                     *)
(***************************************************************************)
\* copy_string(operation) is called: `let mut buffer = Vec::new()` and the
\* iterator of the for loop.
CopyStart(op, g) ==
    /\ alive
    /\ copy.pc = "idle"
    /\ copy' = [copy EXCEPT !.pc = "next", !.op = op, !.getter = g,
                            !.iter = BufferSizesNew, !.buffer = VecNew,
                            !.calls = <<>>, !.result = <<>>]
    /\ UNCHANGED <<alive, build, rx_channels, tx_channels, buffer_pointers,
                   last, handles, threads, stream>>

\* The head of the for loop: the next size and the resize, or the end of the
\* loop and Err(Error::StringLength).
CopyNextSize ==
    /\ alive
    /\ copy.pc = "next"
    /\ LET nx == BufferSizesNext(copy.iter)
       IN copy' =
            IF nx[1] = <<>>
            THEN [copy EXCEPT !.pc = "done", !.iter = nx[2],
                              !.result = <<ErrorNew("StringLength")>>]
            ELSE [copy EXCEPT !.pc = "call", !.iter = nx[2],
                              !.buffer = Resize(copy.buffer, nx[1][1])]
    /\ UNCHANGED <<alive, build, rx_channels, tx_channels, buffer_pointers,
                   last, handles, threads, stream>>

\* The body of the for loop: the closure is invoked, `check_status(status)?`
\* returns its error, and a null byte in the buffer ends the loop with the
\* bytes before it.
CopyCall ==
    /\ alive
    /\ copy.pc = "call"
    /\ LET status == StatusAt(copy.op, Len(copy.calls) + 1)
           chk == copy_check_status(status, copy.getter)
           buffer == IF status = UHD_ERROR_NONE
                     THEN Filled(copy.buffer, copy.op.text)
                     ELSE copy.buffer
           null_index == Position(buffer)
           calls == Append(copy.calls,
                           [size |-> copy.buffer.size, status |-> status,
                            null |-> null_index # <<>>])
       IN /\ copy' =
               IF chk.tag = "StackOverflow"
               THEN [copy EXCEPT !.pc = "aborted", !.calls = calls]
               ELSE IF chk.tag = "Err"
               THEN [copy EXCEPT !.pc = "done", !.calls = calls,
                                 !.result = <<chk>>]
               ELSE IF null_index # <<>>
               THEN [copy EXCEPT
                       !.pc = "done", !.calls = calls,
                       !.buffer = Truncate(buffer, null_index[1]),
                       !.result =
                          <<FromUtf8(Truncate(buffer, null_index[1]))>>]
               ELSE [copy EXCEPT !.pc = "next", !.calls = calls,
                                 !.buffer = buffer]
          /\ alive' = (chk.tag # "StackOverflow")
    /\ UNCHANGED <<build, rx_channels, tx_channels, buffer_pointers, last,
                   handles, threads, stream>>

\* The caller takes the result of copy_string.
CopyReturn ==
    /\ alive
    /\ copy.pc = "done"
    /\ copy' = [copy EXCEPT !.pc = "idle"]
    /\ UNCHANGED <<alive, build, rx_channels, tx_channels, buffer_pointers,
                   last, handles, threads, stream>>

\* The test buffer_sizes: one more sizes.next() on the BufferSizes it made.
SizesNext ==
    /\ alive
    /\ Len(copy.yielded) < MaxNexts
    /\ LET nx == BufferSizesNext(copy.sizes)
       IN copy' = [copy EXCEPT !.sizes = nx[2],
                               !.yielded = Append(copy.yielded, nx[1])]
    /\ UNCHANGED <<alive, build, rx_channels, tx_channels, buffer_pointers,
                   last, handles, threads, stream>>

\* What uhd_get_last_error does while check_status builds the error.
CopyGetters == { Getter(0, 3, TRUE), Getter(StackLimit, 0, TRUE) }

\* The closures copy_string is called with: texts shorter than, as long as
\* and longer than the first sizes and the last one.
Operations ==
    { Operation(NativeText(s, len, utf8), healthy) :
        s \in {UHD_ERROR_NONE, "UHD_ERROR_STDEXCEPT"},
        len \in {0, 3, INITIAL_SIZE, 200, MAX_SIZE - 1, MAX_SIZE},
        utf8 \in BOOLEAN,
        healthy \in 0..2 }

InitCopy ==
    /\ alive = TRUE
    /\ build = [count_max |-> HostCountMax, secs_max |-> HostSecsMax]
    /\ rx_channels = 1
    /\ tx_channels = 1
    /\ buffer_pointers = <<>>
    /\ last = Idle
    /\ handles = NoHandles
    /\ threads = IdleThreads
    /\ stream = IdleStream
    /\ copy = NoCopy

(***************************************************************************)
(* A caller that configures stream arguments with the builder and converts *)
(* them to their C form.                                                   *)
(***************************************************************************)
\* StreamArgs::builder, then any of the three setters of the builder.
Building(args) == Call("builder", args, "building", <<>>, <<>>, <<>>)

BuilderWireFormat(wire_format) ==
    /\ last.op = "builder"
    /\ last' = Building([last.args EXCEPT !.wire_format = wire_format])
    /\ UNCHANGED <<alive, build, rx_channels, tx_channels, buffer_pointers,
                   handles, threads, stream, copy>>

BuilderArgs(args) ==
    /\ last.op = "builder"
    /\ last' = Building([last.args EXCEPT !.args = args])
    /\ UNCHANGED <<alive, build, rx_channels, tx_channels, buffer_pointers,
                   handles, threads, stream, copy>>

BuilderChannels(channels) ==
    /\ last.op = "builder"
    /\ last' = Building([last.args EXCEPT !.channels = channels])
    /\ UNCHANGED <<alive, build, rx_channels, tx_channels, buffer_pointers,
                   handles, threads, stream, copy>>

\* build, then StreamArgsC::try_from on the result.
BuildTryFrom ==
    /\ last.op = "builder"
    /\ last' = Call("try_from", last.args, "returned", StreamArgsC(last.args),
                    <<>>, <<>>)
    /\ UNCHANGED <<alive, build, rx_channels, tx_channels, buffer_pointers,
                   handles, threads, stream, copy>>

\* The texts and channel lists the caller sets.
WireFormats ==
    { <<"s", "c", "1", "6">>, <<"s", "c", "8">>, <<"f", "c", "3", "2">>,
      <<"s", NUL>> }
ArgsTexts == { <<>>, <<"a">>, <<"a", NUL>> }
ChannelLists == { <<>>, <<0>>, <<1, 0>> }

InitArgs ==
    /\ alive = TRUE
    /\ build = [count_max |-> HostCountMax, secs_max |-> HostSecsMax]
    /\ rx_channels = 1
    /\ tx_channels = 1
    /\ buffer_pointers = <<>>
    /\ last \in { Building(StreamArgsDefault(I)) : I \in Items }
    /\ handles = NoHandles
    /\ threads = IdleThreads
    /\ stream = IdleStream
    /\ copy = NoCopy

(***************************************************************************)
(* string_vector.rs and Usrp::find.  The native vector is the sequence of  *)
(* its strings, each with its length and whether it is valid UTF-8; a      *)
(* string copy_string returns is represented by its length.                *)
(***************************************************************************)
\* uhd_string_vector_at as the closure of get sees it: the string at the
\* index, or the std-exception status of std::out_of_range.
StringVectorAt(vector, index) ==
    IF index < Len(vector)
    THEN NativeText(UHD_ERROR_NONE, vector[index + 1].len,
                    vector[index + 1].utf8)
    ELSE NativeText("UHD_ERROR_STDEXCEPT", 0, TRUE)

\* A variant of get that asks for the index after the one it was given.
StringVectorGet_off_by_one(vector, index) ==
    LET status == copy_string(StringVectorAt(vector, index + 1),
                              Getter(0, 0, TRUE))
    IN IF status.tag = "Err" /\ status.kind = "StdExcept"
       THEN <<>>
       ELSE <<status>>

\* StringVector::get: <<>> is None, <<r>> is Some(r).
StringVectorGet(vector, index) ==
    LET status == copy_string(StringVectorAt(vector, index),
                              Getter(0, 0, TRUE))
    IN IF status.tag = "Err" /\ status.kind = "StdExcept"
       THEN <<>>
       ELSE <<status>>

\* StringVector::iter, given the length the native size call reported.
IterNew(vector, length) == [vector |-> vector, next |-> 0, length |-> length]

\* Iterator::next for Iter: <<item, iterator after the call>>.
IterNext(it) ==
    IF it.next = it.length
    THEN << <<>>, it >>
    ELSE LET item == StringVectorGet(it.vector, it.next)
         IN IF item = <<>>
            THEN << <<>>, it >>
            ELSE << item, [it EXCEPT !.next = it.next + 1] >>

\* A variant of the conversion that keeps a placeholder for every item that
\* is an error.
VecFromIter_keep_errors(it) ==
    LET RECURSIVE Collect(_, _)
        Collect(i, acc) ==
            LET nx == IterNext(i)
            IN IF nx[1] = <<>>
               THEN acc
               ELSE Collect(nx[2], Append(acc, IF nx[1][1].tag = "Ok"
                                               THEN nx[1][1].value
                                               ELSE -1))
    IN Collect(it, <<>>)

\* From<&StringVector> for Vec<String>:
\* iter().flat_map(|string_or_err| string_or_err.ok()).collect().
VecFromIter(it) ==
    LET RECURSIVE Collect(_, _)
        Collect(i, acc) ==
            LET nx == IterNext(i)
            IN IF nx[1] = <<>>
               THEN acc
               ELSE Collect(nx[2], IF nx[1][1].tag = "Ok"
                                   THEN Append(acc, nx[1][1].value)
                                   ELSE acc)
    IN Collect(it, <<>>)

\* The vectors the native discovery fills: strings that are valid UTF-8
\* and strings that are not.
NativeVectors ==
    UNION { [1..n -> { [len |-> 12, utf8 |-> TRUE],
                       [len |-> 3, utf8 |-> FALSE] }] : n \in 0..MaxStrings }

\* A text of n bytes, none of them null.
Bytes(n) == [i \in 1..n |-> "m"]

\* The caller holds a StringVector with these strings; `more` are the
\* arguments of the last call on it.
OnVector(vector, more) == [self |-> vector] @@ more

HoldsVector ==
    /\ alive
    /\ last.op \in {"string_vector", "append", "get", "into_vec", "find"}

\* StringVector::append
VectorAppend(value) ==
    /\ HoldsVector
    /\ Len(last.args.self) < MaxStrings
    /\ \E r \in AuxReturns :
         LET vector == last.args.self
             value_c == CStringNew(value)
             chk == Check(r)
             push_back == [fn |-> "uhd_string_vector_push_back",
                           value |-> value]
             appended == Append(vector, [len |-> Len(value), utf8 |-> TRUE])
         IN last' =
              IF value_c.tag # "Ok"
              THEN Call("append", OnVector(vector, [value |-> value]),
                        "returned", value_c, <<>>, <<>>)
              ELSE IF chk.result.tag # "Ok"
              THEN Call("append", OnVector(vector, [value |-> value]),
                        Unwrap(chk.result), chk.result, <<push_back>>,
                        <<chk>>)
              ELSE Call("append", OnVector(appended, [value |-> value]),
                        "returned", Ok(<<>>), <<push_back>>, <<chk>>)
    /\ alive' = (last'.outcome # "aborted")
    /\ UNCHANGED <<build, rx_channels, tx_channels, buffer_pointers, handles,
                   threads, stream, copy>>

\* StringVector::get
VectorGet(index) ==
    /\ HoldsVector
    /\ last' = Call("get", OnVector(last.args.self, [index |-> index]),
                    "returned", StringVectorGet(last.args.self, index),
                    <<>>, <<>>)
    /\ UNCHANGED <<alive, build, rx_channels, tx_channels, buffer_pointers,
                   handles, threads, stream, copy>>

\* Vec::from(&vector): len() for the iterator, then the collection.
VectorInto ==
    /\ HoldsVector
    /\ \E r \in AuxReturns :
         LET vector == last.args.self
             chk == Check(r)
             size == [fn |-> "uhd_string_vector_size"]
         IN last' =
              IF chk.result.tag # "Ok"
              THEN Call("into_vec", OnVector(vector, <<>>),
                        Unwrap(chk.result), chk.result, <<size>>, <<chk>>)
              ELSE Call("into_vec", OnVector(vector, <<>>), "returned",
                        VecFromIter(IterNew(vector, Len(vector))),
                        <<size>>, <<chk>>)
    /\ alive' = (last'.outcome # "aborted")
    /\ UNCHANGED <<build, rx_channels, tx_channels, buffer_pointers, handles,
                   threads, stream, copy>>

\* The behaviours of the native library during find: one of the calls
\* fails, or none does and the discovery fills the vector find made.
FindBehaviours ==
    [make : AuxReturns \ {ReturnsNone}, find : {ReturnsNone},
     size : {ReturnsNone}, found : {<<>>}]
    \cup [make : {ReturnsNone}, find : AuxReturns \ {ReturnsNone},
          size : {ReturnsNone}, found : {<<>>}]
    \cup [make : {ReturnsNone}, find : {ReturnsNone},
          size : AuxReturns \ {ReturnsNone}, found : {<<>>}]
    \cup [make : {ReturnsNone}, find : {ReturnsNone}, size : {ReturnsNone},
          found : NativeVectors]

\* Usrp::find
UsrpFind(args) ==
    /\ HoldsVector
    /\ \E e \in FindBehaviours :
         LET args_c == CStringNew(args)
             found == e.found
             made == Check(e.make)
             chk == Check(e.find)
             sized == Check(e.size)
             make == [fn |-> "uhd_string_vector_make"]
             find == [fn |-> "uhd_usrp_find", args |-> args]
             size == [fn |-> "uhd_string_vector_size"]
             free == [fn |-> "uhd_string_vector_free"]
             on == OnVector(last.args.self, [args |-> args, found |-> found])
         IN last' =
              IF args_c.tag # "Ok"
              THEN Call("find", on, "returned", FromNulError, <<>>, <<>>)
              ELSE IF made.result.tag = "StackOverflow"
              THEN Call("find", on, "aborted", made.result, <<make>>,
                        <<made>>)
              ELSE IF made.result.tag = "Err"
              THEN Call("find", on, "returned", made.result, <<make>>,
                        <<made>>)
              ELSE IF chk.result.tag = "StackOverflow"
              THEN Call("find", on, "aborted", chk.result, <<make, find>>,
                        <<made, chk>>)
              ELSE IF chk.result.tag = "Err"
              THEN Call("find", on, "returned", chk.result,
                        <<make, find, free>>, <<made, chk>>)
              ELSE IF sized.result.tag # "Ok"
              THEN Call("find", on, Unwrap(sized.result), sized.result,
                        <<make, find, size>>
                          \o (IF sized.result.tag = "Err"
                              THEN <<free>> ELSE <<>>),
                        <<made, chk, sized>>)
              ELSE Call("find", on, "returned",
                        Ok(VecFromIter(IterNew(found, Len(found)))),
                        <<make, find, size, free>>, <<made, chk, sized>>)
    /\ alive' = (last'.outcome # "aborted")
    /\ UNCHANGED <<build, rx_channels, tx_channels, buffer_pointers, handles,
                   threads, stream, copy>>

\* The strings the caller appends.
AppendValues == { Bytes(12), Bytes(200), <<"a", NUL>> }

\* The caller holds the empty vector StringVector::new returned.
InitVector ==
    /\ alive = TRUE
    /\ build = [count_max |-> HostCountMax, secs_max |-> HostSecsMax]
    /\ rx_channels = 1
    /\ tx_channels = 1
    /\ buffer_pointers = <<>>
    /\ last = Call("string_vector", OnVector(<<>>, <<>>), "returned", Ok(<<>>),
                   <<[fn |-> "uhd_string_vector_make"]>>, <<>>)
    /\ handles = NoHandles
    /\ threads = IdleThreads
    /\ stream = IdleStream
    /\ copy = NoCopy

(***************************************************************************)
(* range.rs.  The native meta-range is the sequence of the ranges pushed.  *)
(***************************************************************************)
\* Range: start, stop and step.
Range(start, stop, step) == [start |-> start, stop |-> stop, step |-> step]

\* uhd_meta_range_at: the range at the index is written, or the index is
\* past the end and std::out_of_range comes back as the std-exception status.
MetaRangeAt(ranges, index) ==
    IF index < Len(ranges)
    THEN [status |-> UHD_ERROR_NONE, range |-> ranges[index + 1]]
    ELSE [status |-> "UHD_ERROR_STDEXCEPT", range |-> Range(0, 0, 0)]

\* A variant of get whose match has no arm for StdExcept.
MetaRangeGet_no_arm(ranges, index, g) ==
    LET at == MetaRangeAt(ranges, index)
        chk == check_status(at.status, g)
    IN CASE chk.tag = "Ok" -> [outcome |-> "returned", ret |-> <<at.range>>]
         [] chk.tag = "StackOverflow" -> [outcome |-> "aborted", ret |-> chk]
         [] OTHER -> [outcome |-> "panicked", ret |-> chk]

\* MetaRange::get: <<>> is None, <<r>> is Some(r).
MetaRangeGet(ranges, index, g) ==
    LET at == MetaRangeAt(ranges, index)
        chk == check_status(at.status, g)
    IN CASE chk.tag = "Ok" -> [outcome |-> "returned", ret |-> <<at.range>>]
         [] chk.tag = "StackOverflow" -> [outcome |-> "aborted", ret |-> chk]
         [] chk.kind = "StdExcept" -> [outcome |-> "returned", ret |-> <<>>]
         [] OTHER -> [outcome |-> "panicked", ret |-> chk]

HoldsMetaRange ==
    /\ alive
    /\ last.op \in {"meta_range", "push", "meta_range_get"}

\* MetaRange::push
MetaRangePush(range) ==
    /\ HoldsMetaRange
    /\ Len(last.args.self) < MaxRanges
    /\ \E r \in AuxReturns :
         LET chk == Check(r)
             push_back == [fn |-> "uhd_meta_range_push_back",
                           range |-> range]
         IN last' =
              IF chk.result.tag # "Ok"
              THEN Call("push", OnVector(last.args.self, [range |-> range]),
                        Unwrap(chk.result), chk.result, <<push_back>>,
                        <<chk>>)
              ELSE Call("push", OnVector(Append(last.args.self, range),
                                         [range |-> range]),
                        "returned", <<>>, <<push_back>>, <<chk>>)
    /\ alive' = (last'.outcome # "aborted")
    /\ UNCHANGED <<build, rx_channels, tx_channels, buffer_pointers, handles,
                   threads, stream, copy>>

\* MetaRange::get on the meta-range the caller holds.
MetaRangeGetCall(index, g) ==
    /\ HoldsMetaRange
    /\ LET got == MetaRangeGet(last.args.self, index, g)
       IN last' = Call("meta_range_get",
                       OnVector(last.args.self, [index |-> index]),
                       got.outcome, got.ret,
                       <<[fn |-> "uhd_meta_range_at", index |-> index]>>,
                       <<>>)
    /\ alive' = (last'.outcome # "aborted")
    /\ UNCHANGED <<build, rx_channels, tx_channels, buffer_pointers, handles,
                   threads, stream, copy>>

\* The caller holds the empty meta-range MetaRange::new returned.
InitMetaRange ==
    /\ alive = TRUE
    /\ build = [count_max |-> HostCountMax, secs_max |-> HostSecsMax]
    /\ rx_channels = 1
    /\ tx_channels = 1
    /\ buffer_pointers = <<>>
    /\ last = Call("meta_range", OnVector(<<>>, <<>>), "returned", <<>>,
                   <<[fn |-> "uhd_meta_range_make"]>>, <<>>)
    /\ handles = NoHandles
    /\ threads = IdleThreads
    /\ stream = IdleStream
    /\ copy = NoCopy

(***************************************************************************)
(* time_spec of ReceiveMetadata and of TransmitMetadata.  The native time_t *)
(* of build b is a two's-complement pattern of 2 * (b.secs_max + 1)         *)
(* values.                                                                  *)
(***************************************************************************)
\* The pattern the native getter writes into seconds_time_t for the full
\* seconds n of the metadata.
time_t_bits(n, b) == n % (2 * (b.secs_max + 1))

\* A variant of the conversion that extends the pattern with zeros.
time_t_into_unsigned(seconds_time_t, b) == seconds_time_t

\* seconds_time_t.into(): the sign-extended pattern as an i64.
time_t_into(seconds_time_t, b) ==
    IF seconds_time_t > b.secs_max
    THEN seconds_time_t - 2 * (b.secs_max + 1)
    ELSE seconds_time_t

\* time_spec on the metadata of `kind` ("rx" or "tx") whose native object
\* is `native`, with the returns e.has and e.time of the two native
\* getters: <<>> is None, <<t>> is Some(t).
TimeSpecCall(kind, native, e) ==
    /\ alive
    /\ last.op = "metadata"
    /\ LET has_chk == Check(e.has)
           time_chk == Check(e.time)
           has_call == [fn |-> "uhd_" \o kind \o "_metadata_has_time_spec"]
           time_call == [fn |-> "uhd_" \o kind \o "_metadata_time_spec"]
           seconds_time_t == time_t_bits(native.full_secs, build)
           time == [seconds |-> time_t_into(seconds_time_t, build),
                    fraction |-> native.frac_secs]
           self == [kind |-> kind, handle |-> native]
       IN last' =
            IF has_chk.result.tag # "Ok"
            THEN Call("time_spec", self, Unwrap(has_chk.result),
                      has_chk.result, <<has_call>>, <<has_chk>>)
            ELSE IF ~native.has_time_spec
            THEN Call("time_spec", self, "returned", <<>>, <<has_call>>,
                      <<has_chk>>)
            ELSE IF time_chk.result.tag # "Ok"
            THEN Call("time_spec", self, Unwrap(time_chk.result),
                      time_chk.result, <<has_call, time_call>>,
                      <<has_chk, time_chk>>)
            ELSE Call("time_spec", self, "returned", <<time>>,
                      <<has_call, time_call>>, <<has_chk, time_chk>>)
    /\ alive' = (last'.outcome # "aborted")
    /\ UNCHANGED <<build, rx_channels, tx_channels, buffer_pointers, handles,
                   threads, stream, copy>>

\* The native object behind a metadata: the one Default made for either
\* kind, and for a receive metadata what a receive call left in it.
TimedMetadata(b) ==
    { [kind |-> k,
       handle |-> [has_time_spec |-> FALSE, full_secs |-> 0, frac_secs |-> 0]] :
        k \in {"rx", "tx"} }
    \cup
    { [kind |-> "rx", handle |-> n] :
        n \in [has_time_spec : BOOLEAN,
               full_secs : (-b.secs_max - 1)..b.secs_max,
               frac_secs : Fractions] }

\* The caller holds metadata and has not asked for its time yet.
InitTime ==
    /\ alive = TRUE
    /\ build \in Builds
    /\ rx_channels = 1
    /\ tx_channels = 1
    /\ buffer_pointers = <<>>
    /\ last \in { Call("metadata", m, "returned", <<>>, <<>>, <<>>) :
                    m \in UNION { TimedMetadata(b) : b \in Builds } }
    /\ last.args \in TimedMetadata(build)
    /\ handles = NoHandles
    /\ threads = IdleThreads
    /\ stream = IdleStream
    /\ copy = NoCopy

(***************************************************************************)
(* tune_request.rs and Usrp::set_rx_frequency.  Frequencies are integers.  *)
(***************************************************************************)
\* TuneRequestPolicy
NonePolicy == [tag |-> "None"]
Auto == [tag |-> "Auto"]
Manual(frequency) == [tag |-> "Manual", frequency |-> frequency]

with_frequency(frequency) ==
    [target_frequency |-> frequency, rf |-> Auto, dsp |-> Auto, args |-> <<>>]

with_frequency_lo(frequency, local_offset) ==
    [target_frequency |-> frequency, rf |-> Manual(frequency + local_offset),
     dsp |-> Auto, args |-> <<>>]

c_policy(policy) ==
    CASE policy.tag = "None" -> "UHD_TUNE_REQUEST_POLICY_NONE"
      [] policy.tag = "Auto" -> "UHD_TUNE_REQUEST_POLICY_AUTO"
      [] policy.tag = "Manual" -> "UHD_TUNE_REQUEST_POLICY_MANUAL"

\* A variant of frequency that yields 0.0 for every policy.
frequency_zero(policy) == 0

frequency(policy) ==
    IF policy.tag = "Manual" THEN policy.frequency ELSE 0

\* The caller holds the tune request `last.ret`.
HoldsTuneRequest ==
    /\ alive
    /\ last.op \in {"with_frequency", "with_frequency_lo", "set_rf_policy",
                    "set_dsp_policy", "set_args"}

set_rf_policy(policy) ==
    /\ HoldsTuneRequest
    /\ last' = Call("set_rf_policy", policy, "returned",
                    [last.ret EXCEPT !.rf = policy], <<>>, <<>>)
    /\ UNCHANGED <<alive, build, rx_channels, tx_channels, buffer_pointers,
                   handles, threads, stream, copy>>

set_dsp_policy(policy) ==
    /\ HoldsTuneRequest
    /\ last' = Call("set_dsp_policy", policy, "returned",
                    [last.ret EXCEPT !.dsp = policy], <<>>, <<>>)
    /\ UNCHANGED <<alive, build, rx_channels, tx_channels, buffer_pointers,
                   handles, threads, stream, copy>>

set_args(args) ==
    /\ HoldsTuneRequest
    /\ last' = Call("set_args", args, "returned",
                    [last.ret EXCEPT !.args = args], <<>>, <<>>)
    /\ UNCHANGED <<alive, build, rx_channels, tx_channels, buffer_pointers,
                   handles, threads, stream, copy>>

\* Usrp::set_rx_frequency with the tune request the caller holds.
set_rx_frequency(channel) ==
    /\ HoldsTuneRequest
    /\ \E r \in AuxReturns :
         LET request == last.ret
             args == CStringNew(request.args)
             chk == Check(r)
             request_c ==
                 [target_freq |-> request.target_frequency,
                  rf_freq_policy |-> c_policy(request.rf),
                  rf_freq |-> frequency(request.rf),
                  dsp_freq_policy |-> c_policy(request.dsp),
                  dsp_freq |-> frequency(request.dsp),
                  args |-> args.value]
             set_rx_freq == [fn |-> "uhd_usrp_set_rx_freq",
                             tune_request |-> request_c,
                             chan |-> channel]
             on == [request |-> request, channel |-> channel]
         IN last' =
              IF args.tag # "Ok"
              THEN Call("set_rx_frequency", on, "returned", FromNulError,
                        <<>>, <<>>)
              ELSE IF chk.result.tag = "StackOverflow"
              THEN Call("set_rx_frequency", on, "aborted", chk.result,
                        <<set_rx_freq>>, <<chk>>)
              ELSE IF chk.result.tag = "Err"
              THEN Call("set_rx_frequency", on, "returned", chk.result,
                        <<set_rx_freq>>, <<chk>>)
              ELSE Call("set_rx_frequency", on, "returned",
                        Ok("TuneResult"), <<set_rx_freq>>, <<chk>>)
    /\ alive' = (last'.outcome # "aborted")
    /\ UNCHANGED <<build, rx_channels, tx_channels, buffer_pointers, handles,
                   threads, stream, copy>>

\* The caller holds a tune request one of the two constructors made.
InitTune ==
    /\ alive = TRUE
    /\ build = [count_max |-> HostCountMax, secs_max |-> HostSecsMax]
    /\ rx_channels = 1
    /\ tx_channels = 1
    /\ buffer_pointers = <<>>
    /\ last \in
          { Call("with_frequency", [frequency |-> f], "returned",
                 with_frequency(f), <<>>, <<>>) : f \in {0, 100} }
          \cup
          { Call("with_frequency_lo", [frequency |-> f, local_offset |-> o],
                 "returned", with_frequency_lo(f, o), <<>>, <<>>) :
              f \in {0, 100}, o \in {-10, 10} }
    /\ handles = NoHandles
    /\ threads = IdleThreads
    /\ stream = IdleStream
    /\ copy = NoCopy

(***************************************************************************)
(* The specifications: a caller of the receive streamer and its metadata,  *)
(* and a caller of the transmit streamer.  A caller drops the result of a  *)
(* call before making the next one.                                        *)
(***************************************************************************)
NextRx ==
    \/ (\E command \in Commands : SendCommand(command)) /\ UNCHANGED <<handles, threads, stream, copy>>
    \/ (\E buffer \in 0..MaxBufLen, timeout \in Timeouts,
           one_packet \in BOOLEAN : Receive(buffer, timeout, one_packet))
          /\ UNCHANGED <<handles, threads, stream, copy>>
    \/ RxMetadataNew /\ UNCHANGED <<handles, threads, stream, copy>>
    \/ LastError /\ UNCHANGED <<handles, threads, stream, copy>>
    \/ DropResult /\ UNCHANGED <<handles, threads, stream, copy>>

SpecRx == InitRx /\ [][NextRx]_vars

NextTx ==
    \/ (\E buffers \in BufferLists, timeout \in Timeouts :
           Transmit(buffers, timeout)) /\ UNCHANGED <<handles, threads, stream, copy>>
    \/ DropResult /\ UNCHANGED <<handles, threads, stream, copy>>

SpecTx == InitTx /\ [][NextTx]_vars

\* A program that opens devices, makes streamers and wrappers, receives
\* and lets them go out of scope.
NextUsrp ==
    \/ (\E args \in OpenArgs : UsrpOpen(args)) /\ UNCHANGED <<threads, stream, copy>>
    \/ (\E d \in 1..MaxHandles : UsrpDrop(d)) /\ UNCHANGED <<threads, stream, copy>>
    \/ (\E d \in 1..MaxHandles, args \in RxStreamArgs : GetRxStream(d, args))
          /\ UNCHANGED <<threads, stream, copy>>
    \/ (\E h \in 1..MaxHandles : StreamerDrop(h)) /\ UNCHANGED <<threads, stream, copy>>
    \/ (\E d \in 1..MaxHandles : get_rx_sample_rate(d, 0, 1))
          /\ UNCHANGED <<threads, stream, copy>>
    \/ (\E d \in 1..MaxHandles : set_rx_sample_rate(d, 1, 0))
          /\ UNCHANGED <<threads, stream, copy>>
    \/ (\E d \in 1..MaxHandles : get_rx_info(d, 0))
          /\ UNCHANGED <<threads, stream, copy>>
    \/ (\E kind \in DefaultKinds : WrapperDefault(kind)) /\ UNCHANGED <<threads, stream, copy>>
    \/ StringVectorNew /\ UNCHANGED <<threads, stream, copy>>
    \/ (\E h \in 1..MaxHandles : WrapperDrop(h)) /\ UNCHANGED <<threads, stream, copy>>
    \/ (\E s \in 1..MaxHandles, timeout \in Timeouts :
           StreamerReceive(s, 1, timeout, FALSE)) /\ UNCHANGED <<threads, stream, copy>>
    \/ DropResult /\ UNCHANGED <<handles, threads, stream, copy>>

SpecUsrp == InitUsrp /\ [][NextUsrp]_vars

NextThreads ==
    \/ (\E t \in 1..MaxThreads, op \in ThreadOps : ThreadCall(t, op))
          /\ UNCHANGED <<stream, copy>>
    \/ (\E t \in 1..MaxThreads, ok \in BOOLEAN, pre \in BOOLEAN :
           ThreadNativeReturns(t, ok, pre))
          /\ UNCHANGED <<stream, copy>>

SpecThreads == InitThreads /\ [][NextThreads]_vars

\* A caller that sends stream commands to one device, receives from it
\* and asks the metadata it got for its error.
NextStream ==
    \/ (\E command \in StreamCommands : StreamSendCommand(command))
          /\ UNCHANGED <<handles, threads, copy>>
    \/ (\E buffer \in 0..MaxBufLen, timeout \in Timeouts :
           StreamReceive(buffer, timeout, FALSE))
          /\ UNCHANGED <<handles, threads, copy>>
    \/ LastError /\ UNCHANGED <<handles, threads, stream, copy>>
    \/ DropResult /\ UNCHANGED <<handles, threads, stream, copy>>

SpecStream == InitStream /\ [][NextStream]_vars

\* A caller of copy_string, and the test of the size iterator.
NextCopy ==
    \/ \E op \in Operations, g \in CopyGetters : CopyStart(op, g)
    \/ CopyNextSize
    \/ CopyCall
    \/ CopyReturn
    \/ SizesNext

SpecCopy == InitCopy /\ [][NextCopy]_vars

\* A caller of the stream-arguments builder.
NextArgs ==
    \/ \E wire_format \in WireFormats : BuilderWireFormat(wire_format)
    \/ \E args \in ArgsTexts : BuilderArgs(args)
    \/ \E channels \in ChannelLists : BuilderChannels(channels)
    \/ BuildTryFrom

SpecArgs == InitArgs /\ [][NextArgs]_vars

\* A caller of one string vector and of find.
NextVector ==
    \/ \E value \in AppendValues : VectorAppend(value)
    \/ \E index \in 0..MaxStrings : VectorGet(index)
    \/ VectorInto
    \/ \E args \in OpenArgs : UsrpFind(args)

SpecVector == InitVector /\ [][NextVector]_vars

\* A caller of one meta-range.
NextMetaRange ==
    \/ \E range \in {Range(0, 1, 1), Range(2, 5, 1), Range(2, 5, 0)} :
          MetaRangePush(range)
    \/ \E index \in 0..(MaxRanges + 1), g \in CopyGetters :
          MetaRangeGetCall(index, g)

SpecMetaRange == InitMetaRange /\ [][NextMetaRange]_vars

\* A caller that asks the metadata it holds for its time.
NextTime ==
    \E e \in [has : AuxReturns \ {ReturnsNone}, time : {ReturnsNone}]
             \cup [has : {ReturnsNone}, time : AuxReturns] :
        TimeSpecCall(last.args.kind, last.args.handle, e)

SpecTime == InitTime /\ [][NextTime]_vars

\* A caller that changes a tune request and tunes the receiver with it.
NextTune ==
    \/ \E policy \in {NonePolicy, Auto, Manual(5), Manual(110)} :
          set_rf_policy(policy)
    \/ \E policy \in {NonePolicy, Auto, Manual(5), Manual(110)} :
          set_dsp_policy(policy)
    \/ \E args \in OpenArgs : set_args(args)
    \/ \E channel \in 0..1 : set_rx_frequency(channel)

SpecTune == InitTune /\ [][NextTune]_vars

(***************************************************************************)
(* Properties.                                                             *)
(***************************************************************************)
\* The record of the native call `fn` made by the call l (l made one).
NativeCall(l, fn) ==
    l.native[CHOOSE i \in 1..Len(l.native) : l.native[i].fn = fn]

ReturnedOk(l) == l.outcome = "returned" /\ l.ret.tag = "Ok"
ReturnedErr(l) == l.outcome = "returned" /\ l.ret.tag = "Err"

\* C1: every check_status call yields Ok exactly when the status it was
\* given is the none status, and a call that returns for any other status,
\* named by the enum or not, returns Err.
C1_CheckStatusOkIffNone ==
    \A i \in 1..Len(last.checks) :
        LET c == last.checks[i]
        IN /\ (c.result.tag = "Ok") <=> (c.status = UHD_ERROR_NONE)
           /\ (c.status # UHD_ERROR_NONE /\ c.result.tag # "StackOverflow")
                 => c.result.tag = "Err"

\* C1 witness: send_command returned the Err that check_status made of a
\* status the enum does not name.
C1_Witness ==
    /\ last.op = "send_command"
    /\ ReturnedErr(last)
    /\ \E i \in 1..Len(last.checks) :
          /\ last.checks[i].status \in UnnamedStatuses
          /\ last.checks[i].result.tag = "Err"

\* C2 (as claimed): after a successful receive the returned metadata's
\* samples() equals the sample count returned with it.
C2_MetadataSamplesEqualCount ==
    (last.op = "receive" /\ ReturnedOk(last))
        => RxSamples(last.ret.value[1]) = last.ret.value[2]

\* C3 (as claimed): the native receive entry point is reached only with as
\* many buffers as the streamer has channels.
C3_RecvOnlyWithBufferPerChannel ==
    (last.op = "receive" /\ "uhd_rx_streamer_recv" \in NativeFns(last))
        => NativeCall(last, "uhd_rx_streamer_recv").n_buffers
             = NativeCall(last, "uhd_rx_streamer_recv").channels

\* The buffers of a transmit call meet its precondition.
TransmitPrecondition(buffers) ==
    /\ Len(buffers) = tx_channels
    /\ \A i, j \in 1..Len(buffers) : buffers[i] = buffers[j]

\* C4: transmit reaches the native send only with one buffer per channel,
\* all of one length; any other call does not return and reaches no native
\* send, and it panics on the precondition unless a native call before the
\* check already failed.
C4_SendOnlyWithMatchingBuffers ==
    last.op = "transmit" =>
        /\ "uhd_tx_streamer_send" \in NativeFns(last)
              => TransmitPrecondition(last.args.buffers)
        /\ ~TransmitPrecondition(last.args.buffers) =>
              /\ "uhd_tx_streamer_send" \notin NativeFns(last)
              /\ last.outcome # "returned"
              /\ (\A i \in 1..Len(last.checks) :
                     last.checks[i].result.tag = "Ok")
                   => (last.outcome = "panicked" /\ last.ret.tag = "Panic")

\* C4 witness: two buffers of unequal length on a two-channel streamer
\* panicked in the length check.
C4_Witness ==
    /\ last.op = "transmit"
    /\ tx_channels = 2
    /\ Len(last.args.buffers) = 2
    /\ last.args.buffers[1] # last.args.buffers[2]
    /\ last.outcome = "panicked"
    /\ last.ret = Panic("Unequal buffer sizes")

\* C5: buffer_pointers is empty or as long as the streamer has channels.
C5_PointersEmptyOrPerChannel ==
    buffer_pointers = <<>> \/ Len(buffer_pointers) = tx_channels

\* C5 witness: a transmit on a two-channel streamer panicked on its
\* precondition after the pointers had been resized.
C5_Witness ==
    /\ last.op = "transmit"
    /\ last.outcome = "panicked"
    /\ last.ret.tag = "Panic"
    /\ tx_channels = 2
    /\ Len(buffer_pointers) = 2

\* C6: a transmit that returns Ok returns metadata whose samples() is the
\* count the native send reported, and a transmit whose native send returned
\* a status other than none returns Err, without metadata.
C6_TransmitSamplesAreSent ==
    (last.op = "transmit" /\ last.outcome = "returned") =>
        LET send == NativeCall(last, "uhd_tx_streamer_send")
        IN /\ "uhd_tx_streamer_send" \in NativeFns(last)
           /\ last.ret.tag = "Ok" =>
                 /\ send.status = UHD_ERROR_NONE
                 /\ TxSamples(last.ret.value) = send.items_sent
           /\ send.status # UHD_ERROR_NONE => last.ret.tag = "Err"

\* C6 witness: a transmit returned metadata counting two samples sent.
C6_Witness ==
    /\ last.op = "transmit"
    /\ ReturnedOk(last)
    /\ NativeCall(last, "uhd_tx_streamer_send").items_sent = 2
    /\ TxSamples(last.ret.value) = 2

\* A last_error call that returned, on the metadata `last.args`.
LastErrorReturned == last.op = "last_error" /\ last.outcome = "returned"

\* C7: for a metadata whose native error code is overflow, last_error has
\* kind OutOfSequence exactly when out_of_sequence is set, and kind Overflow
\* otherwise.
C7_OverflowDisambiguation ==
    (/\ LastErrorReturned
     /\ last.args.handle.error_code = "UHD_RX_METADATA_ERROR_CODE_OVERFLOW")
        => /\ last.ret # <<>>
           /\ (last.ret[1].kind = "OutOfSequence")
                 <=> last.args.handle.out_of_sequence
           /\ ~last.args.handle.out_of_sequence
                 => last.ret[1].kind = "Overflow"

\* C7 witness: last_error reported OutOfSequence for an overflow code with
\* out_of_sequence set.
C7_Witness ==
    /\ LastErrorReturned
    /\ last.args.handle.error_code = "UHD_RX_METADATA_ERROR_CODE_OVERFLOW"
    /\ last.args.handle.out_of_sequence
    /\ last.ret # <<>>
    /\ last.ret[1].kind = "OutOfSequence"

\* The kind named like each named error code.
LikeNamedKind(code) ==
    CASE code = "UHD_RX_METADATA_ERROR_CODE_TIMEOUT" -> "Timeout"
      [] code = "UHD_RX_METADATA_ERROR_CODE_LATE_COMMAND" -> "LateCommand"
      [] code = "UHD_RX_METADATA_ERROR_CODE_BROKEN_CHAIN" -> "BrokenChain"
      [] code = "UHD_RX_METADATA_ERROR_CODE_OVERFLOW" -> "Overflow"
      [] code = "UHD_RX_METADATA_ERROR_CODE_ALIGNMENT" -> "Alignment"
      [] code = "UHD_RX_METADATA_ERROR_CODE_BAD_PACKET" -> "BadPacket"

\* C8 (as claimed): last_error returns None exactly for the none code, the
\* like-named kind for every other named code, and Other for a code the enum
\* does not name; a fresh metadata carries the none code.
C8_LastErrorKinds ==
    /\ LastErrorReturned =>
          LET code == last.args.handle.error_code
          IN /\ (last.ret = <<>>) <=> (code = UHD_RX_METADATA_ERROR_CODE_NONE)
             /\ (code \in NamedRxErrorCodes
                    /\ code # UHD_RX_METADATA_ERROR_CODE_NONE)
                   => (last.ret # <<>>
                         /\ last.ret[1].kind = LikeNamedKind(code))
             /\ code \notin NamedRxErrorCodes
                   => (last.ret # <<>> /\ last.ret[1].kind = "Other")
    /\ (last.op = "rx_metadata_new" /\ last.outcome = "returned")
          => last.ret.handle.error_code = UHD_RX_METADATA_ERROR_CODE_NONE

\* C8 (amended): as C8, except that the overflow code maps to OutOfSequence
\* when out_of_sequence is set.
C8_LastErrorKindsAmended ==
    /\ LastErrorReturned =>
          LET code == last.args.handle.error_code
              oos == last.args.handle.out_of_sequence
          IN /\ (last.ret = <<>>) <=> (code = UHD_RX_METADATA_ERROR_CODE_NONE)
             /\ (code \in NamedRxErrorCodes
                    /\ code # UHD_RX_METADATA_ERROR_CODE_NONE)
                   => (last.ret # <<>>
                         /\ last.ret[1].kind =
                              IF code = "UHD_RX_METADATA_ERROR_CODE_OVERFLOW"
                                    /\ oos
                              THEN "OutOfSequence"
                              ELSE LikeNamedKind(code))
             /\ code \notin NamedRxErrorCodes
                   => (last.ret # <<>> /\ last.ret[1].kind = "Other")
    /\ (last.op = "rx_metadata_new" /\ last.outcome = "returned")
          => last.ret.handle.error_code = UHD_RX_METADATA_ERROR_CODE_NONE

\* C8 witness: last_error reported Other for a code the enum does not name.
C8_Witness ==
    /\ LastErrorReturned
    /\ last.args.handle.error_code \in UnnamedRxErrorCodes
    /\ last.ret # <<>>
    /\ last.ret[1].kind = "Other"

\* A receive whose native call returned the none status and left the
\* timeout code in the metadata.
ReceiveTimedOut ==
    /\ last.op = "receive"
    /\ "uhd_rx_streamer_recv" \in NativeFns(last)
    /\ last.outcome # "aborted"
    /\ NativeCall(last, "uhd_rx_streamer_recv").status = UHD_ERROR_NONE
    /\ NativeCall(last, "uhd_rx_streamer_recv").md_error_code
          = "UHD_RX_METADATA_ERROR_CODE_TIMEOUT"

\* C9: a receive that timed out returns Ok with the metadata and the count
\* the native call wrote, and last_error on that metadata, when it returns,
\* has kind Timeout.
C9_TimeoutIsNotAnErr ==
    /\ [](ReceiveTimedOut =>
            /\ ReturnedOk(last)
            /\ last.ret.value[1].handle.error_code
                  = "UHD_RX_METADATA_ERROR_CODE_TIMEOUT"
            /\ last.ret.value[2]
                  = NativeCall(last, "uhd_rx_streamer_recv").items_recvd)
    /\ [][(ReceiveTimedOut /\ last'.op = "last_error"
              /\ last'.outcome = "returned")
            => (last'.ret # <<>> /\ last'.ret[1].kind = "Timeout")]_vars

\* C9 witness: last_error reported Timeout on a metadata carrying the
\* timeout code, which only a receive that returned Ok hands out.
C9_Witness ==
    /\ LastErrorReturned
    /\ last.args.handle.error_code = "UHD_RX_METADATA_ERROR_CODE_TIMEOUT"
    /\ last.ret # <<>>
    /\ last.ret[1].kind = "Timeout"

\* Reading a native stream command back: the command type from the mode and
\* the count, the time from stream_now and the time-spec fields.
CommandTypeOf(c) ==
    CASE c.stream_mode = "UHD_STREAM_MODE_START_CONTINUOUS" -> StartContinuous
      [] c.stream_mode = "UHD_STREAM_MODE_STOP_CONTINUOUS" -> StopContinuous
      [] c.stream_mode = "UHD_STREAM_MODE_NUM_SAMPS_AND_DONE"
            -> CountAndDone(c.num_samps)
      [] c.stream_mode = "UHD_STREAM_MODE_NUM_SAMPS_AND_MORE"
            -> CountAndMore(c.num_samps)

TimeOf(c) ==
    IF c.stream_now
    THEN Now
    ELSE Later(c.time_spec_full_secs, c.time_spec_frac_secs)

\* The count and the seconds of a command fit the native types of the build.
Representable(command) ==
    /\ command.command_type.tag \in {"CountAndDone", "CountAndMore"}
          => command.command_type.samples <= build.count_max
    /\ command.time.tag = "Later"
          => /\ -build.secs_max <= command.time.seconds
             /\ command.time.seconds <= build.secs_max

\* C10: a command whose count and seconds are representable natively is
\* handed to the native library as a struct from which its command type,
\* count and time are read back: num_samps is the count of the counted
\* variants, stream_now holds exactly for Now, and Later stores its seconds
\* and fraction unchanged.
C10_CommandRoundTrip ==
    (last.op = "send_command" /\ Representable(last.args)) =>
        /\ last.outcome # "panicked"
        /\ LET c == NativeCall(last, "uhd_rx_streamer_issue_stream_cmd").stream_cmd
               t == last.args.time
               k == last.args.command_type
           IN /\ CommandTypeOf(c).tag = k.tag
              /\ k.tag \in {"CountAndDone", "CountAndMore"}
                    => (c.num_samps = k.samples /\ CommandTypeOf(c) = k)
              /\ c.stream_now <=> (t.tag = "Now")
              /\ TimeOf(c).tag = t.tag
              /\ t.tag = "Later"
                    => /\ c.time_spec_full_secs = t.seconds
                       /\ c.time_spec_frac_secs = t.fraction

\* C10 witness: CountAndMore(2) at a later time with a non-zero fraction
\* was issued on a build with the narrow native types.
C10_Witness ==
    /\ last.op = "send_command"
    /\ last.outcome = "returned"
    /\ build = [count_max |-> NarrowCountMax, secs_max |-> NarrowSecsMax]
    /\ last.args = StreamCommand(Later(-1, 5), CountAndMore(2))
    /\ NativeCall(last, "uhd_rx_streamer_issue_stream_cmd").stream_cmd.stream_mode
          = "UHD_STREAM_MODE_NUM_SAMPS_AND_MORE"

\* C11: send_command with a Later whose seconds do not fit the native time
\* type, or with a counted command whose count does not fit the native count
\* type, panics in the conversion and does not reach the native
\* issue-stream-command entry point; whenever that entry point is reached,
\* the count and the seconds it is given are the caller's, never a
\* truncation of them.
C11_UnrepresentableCommandPanics ==
    last.op = "send_command" =>
        /\ ~Representable(last.args) =>
              /\ last.outcome = "panicked"
              /\ last.ret.tag = "Panic"
              /\ "uhd_rx_streamer_issue_stream_cmd" \notin NativeFns(last)
        /\ "uhd_rx_streamer_issue_stream_cmd" \in NativeFns(last) =>
              LET c == NativeCall(last, "uhd_rx_streamer_issue_stream_cmd").stream_cmd
              IN /\ last.args.command_type.tag \in {"CountAndDone", "CountAndMore"}
                    => c.num_samps = last.args.command_type.samples
                 /\ last.args.time.tag = "Later"
                    => c.time_spec_full_secs = last.args.time.seconds

\* C11 witness: on a build with the narrow native types, a CountAndDone
\* whose count exceeds the native count type panicked in the conversion.
C11_Witness ==
    /\ last.op = "send_command"
    /\ build.count_max = NarrowCountMax
    /\ last.args.command_type = CountAndDone(HostCountMax)
    /\ last.args.time = Now
    /\ last.outcome = "panicked"
    /\ last.ret = Panic("Number of samples too large for size_t")
    /\ last.native = <<>>

\* The make and free calls among the native calls of the call l, for a
\* handle of the given kind.
MakeFreeCalls(l, kind) ==
    LET sel == SelectSeq(l.native,
                   LAMBDA c : c.fn \in {MakeFn(kind), FreeFn(kind)})
    IN [i \in 1..Len(sel) |-> sel[i].fn]

\* C12: for every handle-owning wrapper, the native calls on its handle are
\* one make while the wrapper is in scope and that make followed by one free
\* once it has gone out of scope; no handle is ever freed twice or freed
\* before its make; and a receive that returns Err made its metadata once
\* and freed it once, in that order.
C12_OneMakeThenOneFree ==
    /\ \A h \in 1..MaxHandles :
         LET x == handles[h]
         IN /\ x.wrapper = "live"
                  => (Len(x.calls) = 1 /\ x.calls[1].fn = MakeFn(x.kind))
            /\ x.wrapper = "dropped"
                  => /\ Len(x.calls) = 2
                     /\ x.calls[1].fn = MakeFn(x.kind)
                     /\ x.calls[2].fn = FreeFn(x.kind)
            /\ x.wrapper = "none"
                  => \A i \in 1..Len(x.calls) : x.calls[i].fn = MakeFn(x.kind)
            /\ Len(x.calls) <= 2
    /\ (last.op = "receive" /\ ReturnedErr(last))
          => MakeFreeCalls(last, "rx_metadata")
               = <<"uhd_rx_metadata_make", "uhd_rx_metadata_free">>

\* C12 witness: an opened device has been dropped, and a receive on a
\* streamer returned Err after making and freeing its metadata.
C12_Witness ==
    /\ \E d \in 1..MaxHandles :
          /\ handles[d].kind = "usrp"
          /\ handles[d].wrapper = "dropped"
          /\ handles[d].calls = <<Made("usrp", TRUE), Freed("usrp")>>
    /\ \E m \in 1..MaxHandles :
          /\ handles[m].kind = "rx_metadata"
          /\ handles[m].wrapper = "dropped"

\* C13: a device handle is freed only after every streamer handle made
\* from that device has been freed.
C13_DeviceFreedAfterItsStreamers ==
    \A d, h \in 1..MaxHandles :
        (/\ handles[d].kind = "usrp"
         /\ \E i \in 1..Len(handles[d].calls) :
               handles[d].calls[i].fn = "uhd_usrp_free"
         /\ handles[h].kind = "rx_streamer"
         /\ handles[h].device = d
         /\ Made("rx_streamer", TRUE) \in
               { handles[h].calls[i] : i \in 1..Len(handles[h].calls) })
        => \E i \in 1..Len(handles[h].calls) :
               handles[h].calls[i].fn = "uhd_rx_streamer_free"

\* C13 witness: a streamer that get_rx_stream returned was dropped, and
\* then its device.
C13_Witness ==
    \E d, h \in 1..MaxHandles :
        /\ handles[d].kind = "usrp"
        /\ handles[d].wrapper = "dropped"
        /\ handles[h].kind = "rx_streamer"
        /\ handles[h].device = d
        /\ handles[h].calls = <<Made("rx_streamer", TRUE), Freed("rx_streamer")>>

\* The threads inside the native entry point fn.
Inside(fn) == { t \in 1..MaxThreads : threads[t].at = fn }

\* C14: at most one thread is inside the native recv of the shared receive
\* streamer, and at most one inside the native send of the shared transmit
\* streamer, at any time.
C14_RecvAndSendNeverOverlap ==
    /\ Cardinality(Inside("uhd_rx_streamer_recv")) <= 1
    /\ Cardinality(Inside("uhd_tx_streamer_send")) <= 1

\* C14 witness: one thread is inside the native recv, another inside the
\* native send of the other streamer, and a third is in no call.
C14_Witness ==
    /\ Cardinality(Inside("uhd_rx_streamer_recv")) = 1
    /\ Cardinality(Inside("uhd_tx_streamer_send")) = 1
    /\ \E t \in 1..MaxThreads : threads[t] = IdleThread

\* C15 (as claimed): from Idle, CountAndDone(n) enters the bounded stream of
\* n samples and StartContinuous the continuous one, which only
\* StopContinuous ends; the receive that delivers the last sample of a
\* CountAndDone burst leaves the stream Idle and returns metadata that
\* reports the samples it delivered, no error and end-of-burst.
C15_StreamStateMachine ==
    /\ (/\ last.op = "send_command"
        /\ ReturnedOk(last)
        /\ stream.from = "Idle"
        /\ ~stream.broken
        /\ last.args.command_type.tag = "CountAndDone"
        /\ last.args.command_type.samples > 0)
          => /\ stream.mode = "Bounded"
             /\ stream.remaining = last.args.command_type.samples
             /\ ~stream.more
    /\ (/\ last.op = "send_command"
        /\ ReturnedOk(last)
        /\ stream.from = "Idle"
        /\ last.args.command_type = StartContinuous)
          => stream.mode = "Continuous"
    /\ (/\ last.op \in {"send_command", "receive"}
        /\ stream.from = "Continuous"
        /\ stream.mode = "Idle")
          => /\ last.op = "send_command"
             /\ ReturnedOk(last)
             /\ last.args.command_type = StopContinuous
    /\ (last.op = "receive" /\ stream.event = "completed")
          => /\ ReturnedOk(last)
             /\ stream.mode = "Idle"
             /\ RxEndOfBurst(last.ret.value[1])
             /\ last.ret.value[1].handle.error_code
                  = UHD_RX_METADATA_ERROR_CODE_NONE
             /\ RxSamples(last.ret.value[1]) = last.ret.value[2]
             /\ last.ret.value[2] > 0

\* C16: once a CountAndMore stream has delivered its whole budget with no
\* follow-on command sent before, the next receive that returns metadata
\* returns it with the broken-chain code, and last_error on that metadata,
\* when it returns, has kind BrokenChain.
C16_ExhaustedChainIsBrokenChain ==
    /\ [](stream.event = "exhausted" => stream.broken)
    /\ [][(stream.broken /\ last'.op = "receive" /\ ReturnedOk(last'))
            => /\ stream'.event = "broken_chain"
               /\ last'.ret.value[1].handle.error_code
                    = "UHD_RX_METADATA_ERROR_CODE_BROKEN_CHAIN"]_vars
    /\ []((LastErrorReturned /\ stream.event = "broken_chain")
            => (last.ret # <<>> /\ last.ret[1].kind = "BrokenChain"))

\* C16 witness: last_error returned BrokenChain for the metadata of the
\* receive that followed the exhausted CountAndMore stream.
C16_Witness ==
    /\ LastErrorReturned
    /\ stream.event = "broken_chain"
    /\ stream.from = "Idle"
    /\ ~stream.broken
    /\ last.args.handle.error_code = "UHD_RX_METADATA_ERROR_CODE_BROKEN_CHAIN"
    /\ last.ret # <<>>
    /\ last.ret[1].kind = "BrokenChain"

\* The sizes the test buffer_sizes expects of the iterator, in order.
GrowthSequence ==
    <<128, 256, 512, 1024, 2048, 4096, 8192, 16384, 32768, 65536, 131072,
      262144, 524288, 1048576>>

\* The sizes of the buffers the closure was invoked with, in order.
SizesTried == [i \in 1..Len(copy.calls) |-> copy.calls[i].size]

\* copy_string has returned, and every invocation of its closure returned
\* the std-exception status.
AlwaysFailedReturned ==
    /\ copy.pc = "done"
    /\ copy.op.healthy = 0
    /\ copy.op.text.status = "UHD_ERROR_STDEXCEPT"

\* C17 (as claimed): copy_string with a closure that returns the
\* std-exception status on every invocation tries every size of the growth
\* sequence and returns the StringLength error.
C17_AlwaysFailingYieldsStringLength ==
    AlwaysFailedReturned
        => /\ SizesTried = GrowthSequence
           /\ copy.result = <<ErrorNew("StringLength")>>

\* C17 (amended): copy_string with a closure that returns the std-exception
\* status on every invocation invokes it once, with the first size, and,
\* when it returns, returns the StdExcept error that check_status made of
\* the status, never StringLength.
C17_AlwaysFailingReturnsNativeError ==
    AlwaysFailedReturned
        => /\ SizesTried = <<INITIAL_SIZE>>
           /\ copy.result[1].tag = "Err"
           /\ copy.result[1].kind = "StdExcept"

\* C17 witness: copy_string returned StdExcept after one invocation of a
\* closure that always fails.
C17_Witness ==
    /\ AlwaysFailedReturned
    /\ Len(copy.calls) = 1
    /\ copy.result[1].tag = "Err"
    /\ copy.result[1].kind = "StdExcept"

\* C18: the size iterator yields 128 and then the double of the previous
\* value up to 1,048,576, fourteen values, and None on every later call;
\* copy_string invokes its closure at most fourteen times, with these sizes
\* in this order, and every invocation but the last one it made returned the
\* none status and left no null byte in the buffer.
C18_GrowthSequenceThenNone ==
    /\ \A i \in 1..Len(copy.yielded) :
          copy.yielded[i] = IF i <= Len(GrowthSequence)
                            THEN <<GrowthSequence[i]>>
                            ELSE <<>>
    /\ GrowthSequence[1] = 128
    /\ GrowthSequence[Len(GrowthSequence)] = 1048576
    /\ \A i \in 1..(Len(GrowthSequence) - 1) :
          GrowthSequence[i + 1] = 2 * GrowthSequence[i]
    /\ Len(copy.calls) <= 14
    /\ \A i \in 1..Len(copy.calls) : SizesTried[i] = GrowthSequence[i]
    /\ \A i \in 1..(Len(copy.calls) - 1) :
          /\ SizesTried[i] < SizesTried[i + 1]
          /\ copy.calls[i].status = UHD_ERROR_NONE
          /\ ~copy.calls[i].null
    /\ (copy.pc \in {"done", "aborted"} /\ copy.calls # <<>>)
          => \/ copy.calls[Len(copy.calls)].status # UHD_ERROR_NONE
             \/ copy.calls[Len(copy.calls)].null
             \/ Len(copy.calls) = 14

\* C18 witness: the iterator of the test was asked two more times than it
\* has values, and a copy_string call used every size and gave up.
C18_Witness ==
    /\ Len(copy.yielded) = Len(GrowthSequence) + 2
    /\ copy.yielded[Len(GrowthSequence)] = <<MAX_SIZE>>
    /\ copy.yielded[Len(GrowthSequence) + 2] = <<>>
    /\ copy.pc = "done"
    /\ Len(copy.calls) = 14
    /\ copy.result = <<ErrorNew("StringLength")>>

\* The last invocation copy_string made of its closure.
LastAttempt == copy.calls[Len(copy.calls)]

\* C19: when copy_string returns Ok(s), its last invocation returned the
\* none status and left a null byte, and s is the bytes before that null
\* byte: the whole text, without a null byte and valid UTF-8; every other
\* return is the error of the failed invocation, Utf8 for a text that is not
\* valid UTF-8, or StringLength after the last size.
C19_OkStringIsTextBeforeNull ==
    copy.pc = "done" =>
        LET r == copy.result[1]
        IN \/ /\ r.tag = "Ok"
              /\ ~r.value.nulls
              /\ r.value.utf8
              /\ LastAttempt.status = UHD_ERROR_NONE
              /\ LastAttempt.null
              /\ copy.op.text.len < LastAttempt.size
              /\ r.value.len = copy.op.text.len
              /\ copy.op.text.utf8
           \/ /\ r = ErrorNew("Utf8")
              /\ LastAttempt.status = UHD_ERROR_NONE
              /\ LastAttempt.null
              /\ ~copy.op.text.utf8
           \/ /\ r = ErrorNew("StringLength")
              /\ Len(copy.calls) = Len(GrowthSequence)
              /\ LastAttempt.status = UHD_ERROR_NONE
              /\ ~LastAttempt.null
           \/ /\ r.tag = "Err"
              /\ LastAttempt.status # UHD_ERROR_NONE
              /\ <<r.kind>> = code_to_error_kind(LastAttempt.status)

\* C19 witness: copy_string returned a text of 200 bytes, which took a
\* second, larger buffer.
C19_Witness ==
    /\ copy.pc = "done"
    /\ copy.result[1].tag = "Ok"
    /\ copy.result[1].value.len = 200
    /\ Len(copy.calls) = 2
    /\ ~copy.calls[1].null

\* The host-format tag documented for each sample type.
FixedTag(I) ==
    CASE I = "Complex64" -> <<"f", "c", "6", "4">>
      [] I = "Complex32" -> <<"f", "c", "3", "2">>
      [] I = "Complex<i16>" -> <<"s", "c", "1", "6">>
      [] I = "Complex<i8>" -> <<"s", "c", "8">>

\* No null byte in the text.
NulFree(text) == \A i \in 1..Len(text) : text[i] # NUL

\* C20: the C form of stream arguments over sample type I has the fixed tag
\* of I as its host format, whatever wire format, args and channels the
\* caller set, and its wire format, args and channels are the caller's.
C20_HostFormatIsTagOfItem ==
    (/\ last.op = "try_from"
     /\ NulFree(last.args.wire_format)
     /\ NulFree(last.args.args))
        => /\ last.ret.tag = "Ok"
           /\ last.ret.value.host_format = FixedTag(last.args.host_format)
           /\ last.ret.value.wire_format = last.args.wire_format
           /\ last.ret.value.args = last.args.args
           /\ last.ret.value.channels = last.args.channels

\* C20 witness: stream arguments over complex i8 with another wire format,
\* args and two channels were converted.
C20_Witness ==
    /\ last.op = "try_from"
    /\ last.args.host_format = "Complex<i8>"
    /\ last.args.wire_format = <<"f", "c", "3", "2">>
    /\ last.args.args = <<"a">>
    /\ last.args.channels = <<1, 0>>
    /\ last.ret.tag = "Ok"
    /\ last.ret.value.host_format = <<"s", "c", "8">>

\* The wire format or the args of the stream arguments hold a null byte.
HasNul(args) == ~NulFree(args.wire_format) \/ ~NulFree(args.args)

\* C21: get_rx_stream with stream arguments whose wire format or args hold
\* a null byte returns the NullByte error that the failed conversion
\* yields, reaches no native entry point and leaves every handle as it was.
C21_NulInArgsIsNullByte ==
    /\ []((last.op = "get_rx_stream" /\ HasNul(last.args))
            => /\ StreamArgsC(last.args) = NulError
               /\ last.outcome = "returned"
               /\ last.ret = ErrorNew("NullByte")
               /\ last.native = <<>>)
    /\ [][(last'.op = "get_rx_stream" /\ last.op # "get_rx_stream"
              /\ HasNul(last'.args))
            => handles' = handles]_vars

\* C21 witness: get_rx_stream returned NullByte for args with a null byte
\* and for a wire format with a null byte.
C21_Witness ==
    /\ last.op = "get_rx_stream"
    /\ ~NulFree(last.args.args)
    /\ NulFree(last.args.wire_format)
    /\ last.ret = ErrorNew("NullByte")
    /\ last.native = <<>>

\* The strings of a native vector, as the lengths that stand for them.
StringsOf(vector) == [i \in 1..Len(vector) |-> vector[i].len]

\* C22 (as claimed): the conversion of a string vector yields every string
\* it holds, in index order, and find returns one address for every entry
\* of the vector the native discovery filled, none for the empty vector.
C22_ConversionKeepsEveryString ==
    /\ (last.op = "into_vec" /\ last.outcome = "returned")
          => last.ret = StringsOf(last.args.self)
    /\ (last.op = "find" /\ ReturnedOk(last))
          => /\ last.ret.value = StringsOf(last.args.found)
             /\ Len(last.ret.value) = Len(last.args.found)

\* C23: a successful append of a string adds it at the end of the vector,
\* and get(i) on the vector of the appended strings returns Some(Ok) of the
\* i-th of them for an index below their number and None for any other.
C23_GetAgreesWithAppended ==
    /\ (last.op = "append" /\ ReturnedOk(last))
          => /\ last.args.self # <<>>
             /\ last.args.self[Len(last.args.self)]
                  = [len |-> Len(last.args.value), utf8 |-> TRUE]
    /\ last.op = "get"
          => last.ret = IF last.args.index < Len(last.args.self)
                        THEN <<Ok(last.args.self[last.args.index + 1].len)>>
                        ELSE <<>>

\* C23 witness: get(1) on a vector of two appended strings returned the
\* second one, which is longer than the first buffer of copy_string.
C23_Witness ==
    /\ last.op = "get"
    /\ Len(last.args.self) = 2
    /\ last.args.index = 1
    /\ last.args.self[2].len = 200
    /\ last.args.self[2].len > INITIAL_SIZE
    /\ last.ret = <<Ok(200)>>

\* C24: on a meta-range holding the L ranges pushed, get of an index below
\* L returns, when it returns, the range pushed at that index (the last one
\* for L - 1), and get of L or of any larger index does not panic and
\* returns None when it returns.
C24_GetOfMetaRange ==
    /\ (last.op = "push" /\ last.outcome = "returned")
          => /\ last.args.self # <<>>
             /\ last.args.self[Len(last.args.self)] = last.args.range
    /\ last.op = "meta_range_get"
          => /\ last.outcome # "panicked"
             /\ last.outcome = "returned"
                   => last.ret = IF last.args.index < Len(last.args.self)
                                 THEN <<last.args.self[last.args.index + 1]>>
                                 ELSE <<>>

\* C24 witness: on a meta-range of two ranges get(2) returned None.
C24_Witness ==
    /\ last.op = "meta_range_get"
    /\ last.outcome = "returned"
    /\ Len(last.args.self) = 2
    /\ last.args.self[2] = Range(2, 5, 1)
    /\ last.args.index = 2
    /\ last.ret = <<>>

\* C25: time_spec, when it returns, returns None exactly when the native
\* object has no time spec, as for metadata Default made, and otherwise the
\* full seconds and the fractional seconds of the native object.
C25_TimeSpecGatedByFlag ==
    (last.op = "time_spec" /\ last.outcome = "returned")
        => /\ last.ret = <<>> <=> ~last.args.handle.has_time_spec
           /\ last.args.handle.has_time_spec
                 => last.ret = <<[seconds |-> last.args.handle.full_secs,
                                  fraction |-> last.args.handle.frac_secs]>>

\* C25 witness: time_spec returned the negative full seconds and the
\* fraction of a receive metadata that has a time spec.
C25_Witness ==
    /\ last.op = "time_spec"
    /\ last.outcome = "returned"
    /\ last.args.handle.has_time_spec
    /\ last.args.handle.full_secs = -1
    /\ last.ret = <<[seconds |-> -1, fraction |-> 5]>>

\* The native policy tag and the native frequency documented for a
\* policy: 0 for None and Auto, the manual value for Manual.
NativePolicy(policy) ==
    CASE policy = NonePolicy -> <<"UHD_TUNE_REQUEST_POLICY_NONE", 0>>
      [] policy = Auto -> <<"UHD_TUNE_REQUEST_POLICY_AUTO", 0>>
      [] OTHER -> <<"UHD_TUNE_REQUEST_POLICY_MANUAL", policy.frequency>>

\* C26: with_frequency(f) yields target f with both policies Auto,
\* with_frequency_lo(f, offset) target f with RF policy Manual(f + offset)
\* and DSP policy Auto, and the native request set_rx_frequency passes has
\* the target, the policy tags and the frequencies of the request.
C26_TuneRequestEncoding ==
    /\ last.op = "with_frequency"
          => /\ last.ret.target_frequency = last.args.frequency
             /\ last.ret.rf = Auto
             /\ last.ret.dsp = Auto
    /\ last.op = "with_frequency_lo"
          => /\ last.ret.target_frequency = last.args.frequency
             /\ last.ret.rf = Manual(last.args.frequency
                                       + last.args.local_offset)
             /\ last.ret.dsp = Auto
    /\ (last.op = "set_rx_frequency" /\ last.native # <<>>)
          => LET c == last.native[1].tune_request
                 request == last.args.request
             IN /\ c.target_freq = request.target_frequency
                /\ <<c.rf_freq_policy, c.rf_freq>> = NativePolicy(request.rf)
                /\ <<c.dsp_freq_policy, c.dsp_freq>>
                     = NativePolicy(request.dsp)

\* C26 witness: set_rx_frequency passed the request of
\* with_frequency_lo(100, 10), its DSP policy then set to None.
C26_Witness ==
    /\ last.op = "set_rx_frequency"
    /\ ReturnedOk(last)
    /\ last.args.request.rf = Manual(110)
    /\ last.args.request.dsp = NonePolicy
    /\ last.native[1].tune_request.rf_freq = 110
    /\ last.native[1].tune_request.target_freq = 100

\* C27: every check_status of a call returns Ok or Err, also when
\* uhd_get_last_error returns a status other than none on every invocation.
C27_CheckStatusReturns ==
    \A i \in DOMAIN last.checks :
        last.checks[i].result.tag \in {"Ok", "Err"}

\* The number of native calls of `fn` a call made.
NativeCount(r, fn) ==
    Cardinality({ i \in DOMAIN r.native : r.native[i].fn = fn })

\* C29: a get_rx_stream that returns an error after its native make
\* succeeded freed the streamer handle exactly once, and a get_rx_stream
\* whose native make failed never called the native streamer free.
C29_FreeOnlyAfterSuccessfulMake ==
    (/\ last.op = "get_rx_stream"
     /\ last.outcome = "returned"
     /\ NativeCount(last, "uhd_rx_streamer_make") = 1)
    => IF last.checks[1].status = UHD_ERROR_NONE
       THEN ReturnedErr(last)
              => NativeCount(last, "uhd_rx_streamer_free") = 1
       ELSE NativeCount(last, "uhd_rx_streamer_free") = 0

\* The streamers in scope that get_rx_stream returned for the device d.
LiveStreamers(d) ==
    { h \in 1..MaxHandles :
        /\ handles[h].kind = "rx_streamer"
        /\ handles[h].wrapper = "live"
        /\ handles[h].device = d
        /\ handles[h].calls = <<Made("rx_streamer", TRUE)>> }

\* C28: at most one streamer of a device is alive at any time, and no
\* getter or setter of a device runs while a streamer of it is alive.
C28_UniqueAccessWhileStreaming ==
    /\ \A d \in 1..MaxHandles : Cardinality(LiveStreamers(d)) <= 1
    /\ last.op \in {"get_rx_sample_rate", "set_rx_sample_rate"}
          => LiveStreamers(last.args.device) = {}

\* C28 witness: a device has a streamer alive, made by a second
\* get_rx_stream after the first streamer of that device was dropped.
C28_Witness ==
    \E d, g, h \in 1..MaxHandles :
        /\ LiveDevice(d)
        /\ LiveStreamers(d) = {h}
        /\ handles[g].kind = "rx_streamer"
        /\ handles[g].device = d
        /\ handles[g].calls = <<Made("rx_streamer", TRUE),
                                Freed("rx_streamer")>>

\* C30: a get_rx_info whose native uhd_usrp_get_rx_info succeeded called
\* uhd_usrp_rx_info_free exactly once, also when it returns an error
\* because a field is not valid UTF-8.
C30_InfoFreedOnce ==
    (/\ last.op = "get_rx_info"
     /\ last.outcome = "returned"
     /\ last.checks[1].status = UHD_ERROR_NONE)
    => NativeCount(last, "uhd_usrp_rx_info_free") = 1
====
